---- MODULE Spec2Model ----
(***************************************************************************)
(* Verification model of the ai_os smart file organizer: suggestion        *)
(* generation and repair (providers/ollama.py, models/suggestions.py),     *)
(* preference re-ranking (preference_applier.py, preference_store.py),     *)
(* selection (confirm_selection.py), the executor (file_mover.py) and the  *)
(* learning feedback writer (learning_node.py).                            *)
(*                                                                         *)
(* Conventions.  A file name is a string.  A folder name is a sequence of  *)
(* one-character strings, so that sanitising and stripping act on          *)
(* characters.  A base path is a sequence of words.  A raw confidence is   *)
(* an integer number of thousandths; a validated confidence is an integer  *)
(* number of hundredths (Suggestion.round_confidence stores 2 decimals).   *)
(***************************************************************************)
EXTENDS Integers, Sequences, FiniteSets, TLC

VARIABLES
    pc,             \* position of the run inside the modelled flow
    files,          \* state["files"]: records [name, path]
    raw_response,   \* the generation service's reply (as json.loads decodes it; in
                    \* SpecParse the text itself: [prefix, body, suffix])
    data,           \* the dict _parse_json_response mutates in place
    response,       \* result of OllamaProvider.analyze (SuggestionResponse or a parse error)
    preferences,    \* the persisted preference record (~/.ai_os/preferences.json)
    suggestions,    \* state["suggestions"]
    errors,         \* state["errors"]
    warnings,       \* state["warnings"]
    image_analysis, \* state["image_analysis"]: records [file_name, scene_type]
    selected_suggestion, \* state["selected_suggestion"]: <<>> for None, <<s>> otherwise
    user_cancelled, \* state["user_cancelled"] (None counts as FALSE)
    dry_run,        \* state["dry_run"]
    use_copy,       \* state["use_copy"]
    execution_result, \* state["execution_result"]
    fs,             \* the file system: path -> content, for the files that exist
    dirs,           \* the directories that exist below the base output path
    exec,           \* locals of _execute_operations
    now,            \* wall clock, in seconds
    confirm_asked,  \* whether _confirm_execution has prompted the user
    exit_code,      \* <<>> while main() runs, <<code>> once sys.exit(code) was called
    input_paths,    \* state["input_paths"]
    file_paths,     \* state["file_paths"]
    image_files,    \* state["image_files"]
    text_files,     \* state["text_files"]
    document_files, \* state["document_files"]
    other_files,    \* state["other_files"]
    text_analysis,  \* state["text_analysis"]
    document_analysis, \* state["document_analysis"]
    aggregated_analysis, \* state["aggregated_analysis"]
    stages,         \* the graph nodes entered so far, in order
    vision_calls,   \* the images handed to vision_provider.analyze_image, in order
    llm_calls,      \* the text files handed to the generate endpoint by _llm_analyze
    unset,          \* the fields of the analysis graph whose value is still None
    disk,           \* content of the preference file
    runs            \* per process: its PreferenceStore and where it stands

genVars == <<raw_response, data, response>>

ledgerVars == <<errors, warnings>>

actVars == <<image_analysis, selected_suggestion, user_cancelled, dry_run, use_copy,
             execution_result, fs, dirs, exec, now, confirm_asked>>

pipeVars == <<input_paths, file_paths, image_files, text_files, document_files,
              other_files, text_analysis, document_analysis, aggregated_analysis,
              stages, vision_calls, llm_calls, unset>>

storeVars == <<disk, runs>>

vars == <<pc, files, raw_response, data, response, preferences, suggestions,
          errors, warnings, image_analysis, selected_suggestion, user_cancelled,
          dry_run, use_copy, execution_result, fs, dirs, exec, now, confirm_asked,
          exit_code, input_paths, file_paths, image_files, text_files, document_files,
          other_files, text_analysis, document_analysis, aggregated_analysis,
          stages, vision_calls, llm_calls, unset, disk, runs>>

\* all_filenames = [f.name for f in files]
filenames == [i \in DOMAIN files |-> files[i].name]

----------------------------------------------------------------------------
(* Generic helpers *)

Range(s) == {s[i] : i \in DOMAIN s}

SeqsUpTo(S, n) == UNION {[1..k -> S] : k \in 0..n}

RECURSIVE Flatten(_)
Flatten(ss) == IF ss = <<>> THEN <<>> ELSE Head(ss) \o Flatten(Tail(ss))

Count(s, x) == Cardinality({i \in DOMAIN s : s[i] = x})

Min(a, b) == IF a < b THEN a ELSE b

\* a in b, for Python strings
IsSubstring(a, b) == \E i \in 0..(Len(b) - Len(a)) : SubSeq(b, i + 1, i + Len(a)) = a

UpperLetters == <<"A", "B", "C", "D", "E", "F", "G", "H", "I", "J", "K", "L", "M",
                  "N", "O", "P", "Q", "R", "S", "T", "U", "V", "W", "X", "Y", "Z">>

LowerLetters == <<"a", "b", "c", "d", "e", "f", "g", "h", "i", "j", "k", "l", "m",
                  "n", "o", "p", "q", "r", "s", "t", "u", "v", "w", "x", "y", "z">>

\* str.lower()
Lower(str) ==
    [i \in DOMAIN str |->
        IF \E k \in DOMAIN UpperLetters : UpperLetters[k] = str[i]
        THEN LowerLetters[CHOOSE k \in DOMAIN UpperLetters : UpperLetters[k] = str[i]]
        ELSE str[i]]

----------------------------------------------------------------------------
(* Bounds of the generated-response domain *)

MaxFiles == 2

MaxFolders == 2

MaxFolderFiles == 2

InputNames == {"a", "b"}

Hallucinated == {"x"}


MaxSubfolders == 1

MaxSuggestions == 2

\* SuggestionResponse.suggestions: max_length=5
MaxSuggestionsAllowed == 5

----------------------------------------------------------------------------
(* models/suggestions.py: validation performed when SuggestionResponse(data) *)
(* is constructed                                                            *)

RECURSIVE LStrip(_)
LStrip(name) ==
    IF name # <<>> /\ Head(name) = " " THEN LStrip(Tail(name)) ELSE name

RECURSIVE RStrip(_)
RStrip(name) ==
    IF name # <<>> /\ name[Len(name)] = " "
    THEN RStrip(SubSeq(name, 1, Len(name) - 1))
    ELSE name

\* v.strip()
Strip(name) == RStrip(LStrip(name))

\* invalid_chars = ['/', '\\', '\0']
invalid_chars == {"/", "\\", "NUL"}

\* FolderNode.validate_folder_name: raises iff the stripped name holds an invalid char
FolderNameRejected(name) == Range(Strip(name)) \cap invalid_chars # {}

validate_folder_name(name) == Strip(name)

\* pydantic builds every FolderNode of the tree, nested ones included
NodeRejected(folder) ==
    \/ FolderNameRejected(folder.name)
    \/ \E i \in DOMAIN folder.subfolders : FolderNameRejected(folder.subfolders[i].name)

ValidatedNode(folder) ==
    [name |-> validate_folder_name(folder.name),
     files |-> folder.files,
     subfolders |-> [i \in DOMAIN folder.subfolders |->
                        [folder.subfolders[i] EXCEPT !.name = validate_folder_name(@)]]]

\* confidence: Field(ge=0.0, le=1.0), on thousandths
ConfidenceRejected(c) == c < 0 \/ c > 1000

\* Suggestion.round_confidence: round(v, 2); thousandths -> hundredths
\* (nearest hundredth; an exact tie goes to the even hundredth)
round_confidence(c) ==
    LET q == c \div 10
        r == c % 10
    IN  IF r < 5 THEN q
        ELSE IF r > 5 THEN q + 1
        ELSE IF q % 2 = 0 THEN q ELSE q + 1

RECURSIVE get_all_files_flat(_)
\* FolderNode.get_all_files_flat; a node without the field has subfolders None
get_all_files_flat(folder) ==
    folder.files
      \o (IF "subfolders" \in DOMAIN folder
          THEN Flatten([i \in DOMAIN folder.subfolders |->
                          get_all_files_flat(folder.subfolders[i])])
          ELSE <<>>)

\* FolderStructure.get_all_files
get_all_files(folders) ==
    Flatten([i \in DOMAIN folders |-> get_all_files_flat(folders[i])])

\* FolderNode.get_total_files
get_total_files(folder) == Len(get_all_files_flat(folder))

----------------------------------------------------------------------------
(* skills/file_organizer/providers/ollama.py: sanitising and the repair pass *)

Separators == {"/", "\\"}

RECURSIVE ReplaceSeparators(_)
\* name.replace("/", " - ").replace("\\", " - ")
ReplaceSeparators(name) ==
    IF name = <<>> THEN <<>>
    ELSE (IF Head(name) \in Separators THEN <<" ", "-", " ">> ELSE <<Head(name)>>)
         \o ReplaceSeparators(Tail(name))

\* the loop of _sanitize_folder_names visits the top-level folders only
SanitizeSuggestion(sugg) ==
    [sugg EXCEPT !.folders =
        [j \in DOMAIN sugg.folders |->
            [sugg.folders[j] EXCEPT !.name = ReplaceSeparators(@)]]]

_sanitize_folder_names(d) ==
    [d EXCEPT !.suggestions =
        [i \in DOMAIN d.suggestions |-> SanitizeSuggestion(d.suggestions[i])]]

RECURSIVE CleanFiles(_, _, _)
\* inner loop of pass 1: acc = [cleaned, seen]
CleanFiles(file_list, filename_set, acc) ==
    IF file_list = <<>> THEN acc
    ELSE LET fname == Head(file_list)
         IN  CleanFiles(Tail(file_list), filename_set,
                 IF fname \in filename_set /\ fname \notin acc.seen
                 THEN [cleaned |-> Append(acc.cleaned, fname),
                       seen |-> acc.seen \cup {fname}]
                 ELSE acc)

RECURSIVE CleanFolders(_, _, _)
\* outer loop of pass 1: acc = [folders, seen]; only folder["files"] is rewritten
CleanFolders(folders, filename_set, acc) ==
    IF folders = <<>> THEN acc
    ELSE LET r == CleanFiles(Head(folders).files, filename_set,
                             [cleaned |-> <<>>, seen |-> acc.seen])
         IN  CleanFolders(Tail(folders), filename_set,
                 [folders |-> Append(acc.folders, [Head(folders) EXCEPT !.files = r.cleaned]),
                  seen |-> r.seen])

OtherName == <<"O", "t", "h", "e", "r">>

\* body of the per-suggestion loop of _fix_file_assignments.  When the
\* suggestion carries no "folders" key, .get("folders", []) is a fresh list:
\* what is appended to it never reaches the suggestion.
FixSuggestion(sugg, all_filenames) ==
    LET pass1 == CleanFolders(sugg.folders, Range(all_filenames),
                              [folders |-> <<>>, seen |-> {}])
        kept == SelectSeq(pass1.folders, LAMBDA f : f.files # <<>>)
        missing == SelectSeq(all_filenames, LAMBDA f : f \notin pass1.seen)
    IN  IF ~sugg.has_folders THEN sugg
        ELSE [sugg EXCEPT !.folders =
                IF missing # <<>>
                THEN Append(kept, [name |-> OtherName, files |-> missing, subfolders |-> <<>>])
                ELSE kept]

_fix_file_assignments(d, all_filenames) ==
    [d EXCEPT !.suggestions =
        [i \in DOMAIN d.suggestions |-> FixSuggestion(d.suggestions[i], all_filenames)]]

\* causes for which SuggestionResponse(data) or validate_response raises
RejectionCauses(d) ==
    (IF \E i \in DOMAIN d.suggestions : \E j \in DOMAIN d.suggestions[i].folders :
            NodeRejected(d.suggestions[i].folders[j])
     THEN {"folder_name"} ELSE {})
    \cup (IF \E i \in DOMAIN d.suggestions : ConfidenceRejected(d.suggestions[i].confidence)
          THEN {"confidence"} ELSE {})
    \cup (IF Len(d.suggestions) > MaxSuggestionsAllowed THEN {"too_many"} ELSE {})
    \cup (IF d.suggestions = <<>> THEN {"no_suggestions"} ELSE {})

ValidatedSuggestion(sugg) ==
    [base_path |-> sugg.base_path,
     folders |-> [j \in DOMAIN sugg.folders |-> ValidatedNode(sugg.folders[j])],
     confidence |-> round_confidence(sugg.confidence)]

NoResponse ==
    [ok |-> FALSE, causes |-> {}, suggestions |-> <<>>, file_count |-> 0,
     analysis_summary |-> <<>>]

\* _parse_json_response on the (sanitised, repaired) dict, then validate_response
SuggestionResponse(d) ==
    IF RejectionCauses(d) # {}
    THEN [ok |-> FALSE, causes |-> RejectionCauses(d), suggestions |-> <<>>, file_count |-> 0,
          analysis_summary |-> <<>>]
    ELSE [ok |-> TRUE, causes |-> {},
          suggestions |-> [i \in DOMAIN d.suggestions |-> ValidatedSuggestion(d.suggestions[i])],
          file_count |-> d.file_count,
          analysis_summary |-> d.analysis_summary]

\* the dict after lines 151-159 of _parse_json_response
RepairedData(d, all_filenames) ==
    _fix_file_assignments(
        _sanitize_folder_names(
            [d EXCEPT !.file_count = IF d.has_file_count THEN @ ELSE Len(all_filenames)]),
        all_filenames)

----------------------------------------------------------------------------
(* v0.1/learning/preference_store.py *)

\* keys of "strategy_scores", in the order _default_preferences inserts them
StrategyOrder == <<"by_content", "by_activity", "by_setting">>

Strategies == Range(StrategyOrder)

\* folder_names is a set of <<scene_type, preferred_name>> pairs, one per scene at most
_default_preferences ==
    [strategy_scores |-> [st \in Strategies |-> 0],
     folder_names |-> {},
     history |-> <<>>,
     stats |-> [total_organizations |-> 0, total_files_organized |-> 0,
                suggestions_accepted |-> 0, suggestions_modified |-> 0]]

RECURSIVE RankingOf(_, _)
\* sorted(keys, key=lambda x: scores[x], reverse=True): a stable sort, so a key
\* goes behind every key already placed whose score is not lower
RankingOf(keys, scores) ==
    IF keys = <<>> THEN <<>>
    ELSE LET placed == RankingOf(SubSeq(keys, 1, Len(keys) - 1), scores)
             x == keys[Len(keys)]
             n == Cardinality({i \in DOMAIN placed : scores[placed[i]] >= scores[x]})
         IN  SubSeq(placed, 1, n) \o <<x>> \o SubSeq(placed, n + 1, Len(placed))

get_strategy_ranking(prefs) == RankingOf(StrategyOrder, prefs.strategy_scores)

\* self.preferences["folder_names"].get(scene_type, default)
get_preferred_folder_name(prefs, scene_type, default) ==
    IF \E p \in prefs.folder_names : p[1] = scene_type
    THEN (CHOOSE p \in prefs.folder_names : p[1] = scene_type)[2]
    ELSE default

----------------------------------------------------------------------------
(* skills/file_organizer/preference_applier.py *)

KW_content == <<"c", "o", "n", "t", "e", "n", "t">>

KW_activity == <<"a", "c", "t", "i", "v", "i", "t", "y">>

KW_setting == <<"s", "e", "t", "t", "i", "n", "g">>

\* preference_applier._detect_strategy
_detect_strategy(base_path) ==
    LET base_lower == Lower(base_path)
    IN  IF IsSubstring(KW_content, base_lower) THEN "by_content"
        ELSE IF IsSubstring(KW_activity, base_lower) THEN "by_activity"
        ELSE IF IsSubstring(KW_setting, base_lower) THEN "by_setting"
        ELSE "by_content"

\* default_to_scene, in insertion order
default_to_scene ==
    << <<(<<"s", "e", "l", "f", "i", "e", "s">>), "selfie">>,
       <<(<<"b", "e", "a", "c", "h", " ", "&", " ", "p", "o", "o", "l">>), "beach">>,
       <<(<<"c", "i", "t", "y", " ", "&", " ", "t", "r", "a", "v", "e", "l">>), "city-street">>,
       <<(<<"m", "u", "s", "i", "c", " ", "&", " ", "e", "v", "e", "n", "t", "s">>), "music">>,
       <<(<<"a", "r", "t", " ", "&", " ", "c", "u", "l", "t", "u", "r", "e">>), "art">>,
       <<(<<"s", "p", "o", "r", "t", "s", " ", "&", " ", "f", "i", "t", "n", "e", "s", "s">>), "sports">>,
       <<(<<"p", "o", "r", "t", "r", "a", "i", "t", "s">>), "portrait">>,
       <<(<<"h", "o", "m", "e">>), "home-indoor">> >>

TableMatches(folder_lower, k) ==
    \/ IsSubstring(default_to_scene[k][1], folder_lower)
    \/ IsSubstring(folder_lower, default_to_scene[k][1])

\* inner loop of _apply_folder_names: the first matching table entry decides
PreferredName(prefs, name) ==
    LET folder_lower == Lower(name)
        hits == {k \in DOMAIN default_to_scene : TableMatches(folder_lower, k)}
    IN  IF hits = {} THEN name
        ELSE LET k == CHOOSE k \in hits : \A k2 \in hits : k <= k2
             IN  get_preferred_folder_name(prefs, default_to_scene[k][2], name)

\* _apply_folder_names: top-level folders only
_apply_folder_names(sugg, prefs) ==
    [sugg EXCEPT !.folders =
        [j \in DOMAIN sugg.folders |->
            [sugg.folders[j] EXCEPT !.name = PreferredName(prefs, @)]]]

\* step of the boost, in hundredths: 0.05
BoostStep == 5

\* position of x in lst (0-based), lst.index(x)
IndexOf(lst, x) == (CHOOSE i \in DOMAIN lst : lst[i] = x /\ \A k \in 1..(i - 1) : lst[k] # x) - 1

\* rank recorded for a strategy that is not in the ranking
UnrankedIndex == 99

preference_boost(strategy, strategy_ranking) ==
    IF strategy \in Range(strategy_ranking)
    THEN (Len(strategy_ranking) - IndexOf(strategy_ranking, strategy)) * BoostStep
    ELSE 0

\* the adjusted confidence without the cap at 1.0
NewConfidence_Uncapped(confidence, boost) == confidence + boost

\* new_confidence = min(1.0, sugg.confidence + preference_boost), in hundredths
NewConfidence(confidence, boost) == Min(100, confidence + boost)

\* one entry of scored_suggestions
Scored(sugg, prefs) ==
    LET strategy_ranking == get_strategy_ranking(prefs)
        strategy == _detect_strategy(sugg.base_path)
    IN  [new_confidence |-> NewConfidence(sugg.confidence,
                                          preference_boost(strategy, strategy_ranking)),
         rank |-> IF strategy \in Range(strategy_ranking)
                  THEN IndexOf(strategy_ranking, strategy) ELSE UnrankedIndex,
         sugg |-> _apply_folder_names(sugg, prefs)]

\* the sort key with confidence first and rank second
SortKeyLE_ConfidenceFirst(x, y) ==
    \/ (0 - x.new_confidence) < (0 - y.new_confidence)
    \/ x.new_confidence = y.new_confidence /\ x.rank <= y.rank

\* key=lambda x: (x[1], -x[0]), compared as tuples
SortKeyLE(x, y) ==
    \/ x.rank < y.rank
    \/ x.rank = y.rank /\ (0 - x.new_confidence) <= (0 - y.new_confidence)

RECURSIVE SortScored(_)
\* scored_suggestions.sort(key=...): stable
SortScored(scored) ==
    IF scored = <<>> THEN <<>>
    ELSE LET placed == SortScored(SubSeq(scored, 1, Len(scored) - 1))
             x == scored[Len(scored)]
             n == Cardinality({i \in DOMAIN placed : SortKeyLE(placed[i], x)})
         IN  SubSeq(placed, 1, n) \o <<x>> \o SubSeq(placed, n + 1, Len(placed))

\* Suggestion(confidence=new_conf) raises outside [0, 1]
ReRankRaises(resp, prefs) ==
    \/ ~resp.ok
    \/ \E i \in DOMAIN resp.suggestions :
          LET c == Scored(resp.suggestions[i], prefs).new_confidence
          IN  c < 0 \/ c > 100
    \/ Len(resp.suggestions) > MaxSuggestionsAllowed

\* apply_preferences(suggestions, store) with store = PreferenceStore()
\* a re-ranking that returns the best-ranked proposal only
apply_preferences_BestOnly(resp, prefs) ==
    LET scored == SortScored([i \in DOMAIN resp.suggestions |-> Scored(resp.suggestions[i], prefs)])
    IN  [resp EXCEPT !.suggestions =
            [i \in DOMAIN SubSeq(scored, 1, 1) |->
                [scored[i].sugg EXCEPT !.confidence = scored[i].new_confidence]]]

apply_preferences(resp, prefs) ==
    LET scored == SortScored([i \in DOMAIN resp.suggestions |-> Scored(resp.suggestions[i], prefs)])
    IN  [resp EXCEPT !.suggestions =
            [i \in DOMAIN scored |-> [scored[i].sugg EXCEPT !.confidence = scored[i].new_confidence]]]

----------------------------------------------------------------------------
(* Files and paths.  A path is [dir, name, stamp]: dir is the sequence of      *)
(* directory names, name the file name, and stamp the second appended as      *)
(* _HHMMSS before the extension (0 when the name carries none).               *)

InputDirs == << <<"in1">>, <<"in2">>, <<"in3">>, <<"in4">> >>

SourcePath(i, name) == [dir |-> <<InputDirs[i]>>, name |-> name, stamp |-> 0]

\* the i-th discovered file lives in the i-th input directory
FilesNamed(names) ==
    [i \in DOMAIN names |-> [name |-> names[i], path |-> SourcePath(i, names[i])]]

EmptyFS == [p \in {} |-> p]

NoResult ==
    [status |-> "none", files_processed |-> 0, files_failed |-> 0,
     would_process |-> 0, directories_created |-> 0]

NoExec == [operations |-> <<>>, index |-> 0, success_count |-> 0, error_count |-> 0,
           created_dirs |-> {}, log |-> <<>>]

\* the fields of the analysis graph that create_initial_state sets to None
InitiallyNone ==
    {"file_paths", "image_files", "text_files", "document_files", "other_files",
     "image_analysis", "text_analysis", "document_analysis", "aggregated_analysis"}

\* create_initial_state for the fields of the analysis graph (a None field
\* holds the empty sequence and is listed in unset)
PipeIdle ==
    /\ unset = InitiallyNone
    /\ input_paths = <<>>
    /\ file_paths = <<>>
    /\ image_files = <<>>
    /\ text_files = <<>>
    /\ document_files = <<>>
    /\ other_files = <<>>
    /\ text_analysis = <<>>
    /\ document_analysis = <<>>
    /\ aggregated_analysis = <<>>
    /\ stages = <<>>
    /\ vision_calls = <<>>
    /\ llm_calls = <<>>

\* the preference file does not exist; a file is [state, doc, extra, writer]:
\* state is "absent", "empty" (opened for writing, nothing written yet) or
\* "written"; doc is the document at its start, extra the number of bytes of
\* an older, longer document left behind it, writer the run that wrote doc
NoFile == [state |-> "absent", doc |-> _default_preferences, extra |-> 0, writer |-> 0]

\* no preference file, no process holding a store
StoreIdle ==
    /\ disk = NoFile
    /\ runs = <<>>

\* create_initial_state for the fields used from selection on
ActIdle ==
    /\ exit_code = <<>>
    /\ PipeIdle
    /\ StoreIdle
    /\ image_analysis = <<>>
    /\ selected_suggestion = <<>>
    /\ user_cancelled = FALSE
    /\ dry_run = FALSE
    /\ use_copy = FALSE
    /\ execution_result = NoResult
    /\ fs = EmptyFS
    /\ dirs = {}
    /\ exec = NoExec
    /\ now = 1
    /\ confirm_asked = FALSE

----------------------------------------------------------------------------
(* Replies of the generation service *)

FileLists == SeqsUpTo(InputNames, MaxFiles) \ {<<>>}

BP_Organized == <<"O", "r", "g", "a", "n", "i", "z", "e", "d">>

Reply(suggs) ==
    [suggestions |-> suggs, has_file_count |-> FALSE, file_count |-> 0,
     analysis_summary |-> <<>>]

\* replies that vary the arrangement of files over folders and subfolders
StructSubfolders == [name : {<<"S">>}, files : {<<"a">>, <<"x">>}]

StructFolders ==
    [name : {<<"D">>},
     files : SeqsUpTo(InputNames \cup Hallucinated, MaxFolderFiles),
     subfolders : SeqsUpTo(StructSubfolders, MaxSubfolders)]

StructSuggestions ==
    [base_path : {BP_Organized}, confidence : {900}, has_folders : {TRUE},
     folders : SeqsUpTo(StructFolders, MaxFolders)]
    \cup [base_path : {BP_Organized}, confidence : {900}, has_folders : {FALSE},
          folders : {<<>>}]

StructReplies == {Reply(<<s>>) : s \in StructSuggestions}

\* replies that vary the folder names and the confidences
TopNames == {<<"D">>, <<"A", "/", "B">>, <<" ", "P", "\\", "Q">>}

SubNames == {<<"S">>, <<"U", "/", "V">>}

RawConfidences == {-50, 304, 996, 1200}

NamedFolders ==
    [name : TopNames, files : {<<"a">>},
     subfolders : SeqsUpTo([name : SubNames, files : {<<"b">>}], MaxSubfolders)]

NamedSuggestions ==
    [base_path : {BP_Organized}, confidence : RawConfidences, has_folders : {TRUE},
     folders : {<<>>} \cup {<<f>> : f \in NamedFolders}]

NamedReplies == {Reply(ss) : ss \in SeqsUpTo(NamedSuggestions, MaxSuggestions)}

----------------------------------------------------------------------------
(* Generation: OllamaProvider.analyze from the decoded reply on *)

InitGen ==
    /\ pc = "generated"
    /\ files \in {FilesNamed(names) : names \in FileLists}
    /\ raw_response \in StructReplies \cup NamedReplies
    /\ data = raw_response
    /\ response = NoResponse
    /\ preferences = _default_preferences
    /\ suggestions = NoResponse
    /\ errors = <<>>
    /\ warnings = <<>>
    /\ ActIdle

\* analyze: _parse_json_response (sanitise, repair, validate) and validate_response
Analyze ==
    /\ pc = "generated"
    /\ data' = RepairedData(data, filenames)
    /\ response' = SuggestionResponse(data')
    /\ pc' = "parsed"
    /\ UNCHANGED <<files, raw_response, preferences, suggestions, errors, warnings>>
    /\ UNCHANGED <<actVars, exit_code, pipeVars, storeVars>>

\* the repair pass run once more on the dict it has repaired
RepairAgain ==
    /\ pc = "parsed"
    /\ data' = _fix_file_assignments(data, filenames)
    /\ pc' = "refixed"
    /\ UNCHANGED <<files, raw_response, response, preferences, suggestions,
                   errors, warnings>>
    /\ UNCHANGED <<actVars, exit_code, pipeVars, storeVars>>

NextGen == Analyze \/ RepairAgain

SpecGen == InitGen /\ [][NextGen]_vars

----------------------------------------------------------------------------
(* Claims on generation and repair *)

\* C1: every proposal of a returned proposal set holds, over all its folders
\* and subfolders, each input file name exactly once and no other name.
C1_Coverage ==
    (pc # "generated" /\ response.ok) =>
        \A i \in DOMAIN response.suggestions :
            LET all_files == get_all_files(response.suggestions[i].folders)
            IN  /\ Range(all_files) \subseteq Range(filenames)
                /\ \A n \in Range(filenames) : Count(all_files, n) = 1

\* position (j, k) of the reply's top-level file lists holds an input name
\* that occurs at no earlier position in folder-then-file order
FirstOccurrence(folders, names, j, k) ==
    /\ folders[j].files[k] \in names
    /\ \A j2 \in DOMAIN folders : \A k2 \in DOMAIN folders[j2].files :
          (j2 < j \/ (j2 = j /\ k2 < k)) => folders[j2].files[k2] # folders[j].files[k]

RECURSIVE PickFrom(_, _, _)
PickFrom(s, K, k) ==
    IF k > Len(s) THEN <<>>
    ELSE (IF k \in K THEN <<s[k]>> ELSE <<>>) \o PickFrom(s, K, k + 1)

\* what the claim says the repair pass makes of one proposal's file lists
ClaimedFileLists(folders, all_filenames) ==
    LET names == Range(all_filenames)
        firsts == [j \in DOMAIN folders |->
                     PickFrom(folders[j].files,
                              {k \in DOMAIN folders[j].files : FirstOccurrence(folders, names, j, k)},
                              1)]
        seen == names \cap UNION {Range(folders[j].files) : j \in DOMAIN folders}
        unseen == SelectSeq(all_filenames, LAMBDA n : n \notin seen)
    IN  SelectSeq(firsts, LAMBDA fl : fl # <<>>)
        \o (IF unseen # <<>> THEN <<unseen>> ELSE <<>>)

FileLists_of(folders) == [j \in DOMAIN folders |-> folders[j].files]

\* C2: per proposal, first occurrences of input names are kept, everything
\* else is dropped, emptied folders are removed and "Other" is appended with
\* exactly the unseen names iff there is one.
C2_RepairPass ==
    pc = "parsed" =>
        \A i \in DOMAIN raw_response.suggestions :
            /\ FileLists_of(data.suggestions[i].folders)
                 = ClaimedFileLists(raw_response.suggestions[i].folders, filenames)
            /\ (\E n \in Range(filenames) :
                    \A j \in DOMAIN raw_response.suggestions[i].folders :
                        n \notin Range(raw_response.suggestions[i].folders[j].files))
               <=> (/\ data.suggestions[i].folders # <<>>
                    /\ data.suggestions[i].folders[Len(data.suggestions[i].folders)].name = OtherName
                    /\ Len(data.suggestions[i].folders)
                         > Cardinality({j \in DOMAIN raw_response.suggestions[i].folders :
                              \E k \in DOMAIN raw_response.suggestions[i].folders[j].files :
                                 FirstOccurrence(raw_response.suggestions[i].folders,
                                                 Range(filenames), j, k)}))

\* C3: a second run of the repair pass leaves a repaired proposal set identical.
C3_RepairIdempotent == [][(pc = "parsed" /\ pc' = "refixed") => data' = data]_vars

AllFolderNames(folders) ==
    {folders[j].name : j \in DOMAIN folders}
    \cup UNION {{folders[j].subfolders[k].name : k \in DOMAIN folders[j].subfolders} :
                    j \in DOMAIN folders}

\* C4: no folder name of a returned proposal set holds a separator, and a
\* separator in a generated name never makes the reply rejected.
C4_NamesSanitized ==
    pc # "generated" =>
        /\ "folder_name" \notin response.causes
        /\ \A i \in DOMAIN response.suggestions :
              \A nm \in AllFolderNames(response.suggestions[i].folders) :
                  Range(nm) \cap Separators = {}

----------------------------------------------------------------------------
(* v0.1/nodes/llm_analyzer.py: generation followed by re-ranking *)

MaxScore == 1

BP_Content == <<"B", "y", " ", "C", "o", "n", "t", "e", "n", "t">>

BP_Activity == <<"B", "y", " ", "A", "c", "t", "i", "v", "i", "t", "y">>

BP_Setting == <<"B", "y", " ", "S", "e", "t", "t", "i", "n", "g">>

BP_Sorted == <<"S", "o", "r", "t", "e", "d">>

RankBasePaths == {BP_Content, BP_Activity, BP_Setting, BP_Sorted}

RankConfidences == {304, 996, 1200}

NameHome == <<"H", "o", "m", "e">>

NameCasa == <<"C", "a", "s", "a">>

RankFolders == [name : {<<"D">>, NameHome}, files : {<<"a">>}, subfolders : {<<>>}]

RankSuggestions ==
    [base_path : RankBasePaths, confidence : RankConfidences, has_folders : {TRUE},
     folders : {<<f>> : f \in RankFolders}]

\* "analysis_summary" of a reply: absent (None) or a sentence
Summaries == {<<>>, <<"Generated N organization options">>}

RankReplies == {Reply(ss) : ss \in SeqsUpTo(RankSuggestions, MaxSuggestions)}

PreferenceRecords ==
    {[_default_preferences EXCEPT !.strategy_scores = sc, !.folder_names = fn] :
        sc \in [Strategies -> 0..MaxScore],
        fn \in {{}, {<<"home-indoor", NameCasa>>}}}

InitRank ==
    /\ pc = "aggregated"
    /\ files = FilesNamed(<<"a">>)
    /\ raw_response = Reply(<<>>)
    /\ data = raw_response
    /\ response = NoResponse
    /\ preferences \in PreferenceRecords
    /\ suggestions = NoResponse
    /\ errors = <<>>
    /\ warnings = <<>>
    /\ ActIdle

\* what can go wrong between the probe of analyze_with_llm and the validated
\* response: "probe_down" (is_available() false at llm_analyzer.py:62),
\* "analyze_down" (false again inside analyze), "call_failed" (time-out,
\* connection error, status other than 200, body without "response"),
\* "garbled" (reply text that json.loads rejects)
GenerationFailures == {"probe_down", "analyze_down", "call_failed", "garbled"}

\* one message for every kind of failure
FailureMessage_Generic(failure) == "unexpected_error"

\* the message analyze_with_llm appends for a failure of the generation
FailureMessage(failure) ==
    IF failure = "probe_down" THEN "provider_unavailable"
    ELSE IF failure = "analyze_down" THEN "provider_not_available"
    ELSE IF failure = "call_failed" THEN "provider_api_error"
    ELSE "provider_parse_error"

\* analyze_with_llm: provider probe, provider.analyze, then apply_preferences.
\* outcome is what the generation service does with the request.
analyze_with_llm(replies) ==
    /\ pc = "aggregated"
    /\ pc' = "suggested"
    /\ UNCHANGED <<files, preferences>>
    /\ UNCHANGED <<actVars, exit_code, pipeVars, storeVars>>
    /\ IF filenames = <<>>
       THEN /\ errors' = Append(errors, "no_files")
            /\ UNCHANGED <<raw_response, data, response, suggestions, warnings>>
       ELSE \E outcome \in GenerationFailures \cup {"reply"} :
            \/ /\ outcome = "probe_down"
               /\ errors' = Append(errors, FailureMessage(outcome))
               /\ UNCHANGED <<raw_response, data, response, suggestions, warnings>>
            \/ /\ outcome \in GenerationFailures \ {"probe_down"}
               /\ errors' = Append(errors, FailureMessage(outcome))
               /\ warnings' = Append(warnings, "could_not_apply_preferences")
               /\ UNCHANGED <<raw_response, data, response, suggestions>>
            \/ /\ outcome = "reply"
               /\ \E reply \in replies :
                    /\ raw_response' = reply
                    /\ data' = RepairedData(reply, filenames)
               /\ response' = SuggestionResponse(data')
               /\ errors' = IF response'.ok THEN errors
                            ELSE Append(errors, FailureMessage("invalid"))
               /\ IF ReRankRaises(response', preferences)
                  THEN /\ suggestions' = IF response'.ok THEN response' ELSE suggestions
                       /\ warnings' = Append(warnings, "could_not_apply_preferences")
                  ELSE /\ suggestions' = apply_preferences(response', preferences)
                       /\ UNCHANGED warnings

\* the step on the replies of the re-ranking runs
AnalyzeWithLLM == analyze_with_llm(RankReplies)

NextRank == AnalyzeWithLLM

SpecRank == InitRank /\ [][NextRank]_vars

----------------------------------------------------------------------------
(* Claims on re-ranking *)

\* 0-based place of a strategy in the descending-score order of the record,
\* ties in the record's key order
PlaceOf(strategy, prefs) ==
    Cardinality({k \in DOMAIN StrategyOrder :
        \/ prefs.strategy_scores[StrategyOrder[k]] > prefs.strategy_scores[strategy]
        \/ /\ prefs.strategy_scores[StrategyOrder[k]] = prefs.strategy_scores[strategy]
           /\ k < CHOOSE m \in DOMAIN StrategyOrder : StrategyOrder[m] = strategy})

ClaimedConfidence(sugg, prefs) ==
    LET boost == (Len(StrategyOrder) - PlaceOf(_detect_strategy(sugg.base_path), prefs)) * BoostStep
    IN  IF sugg.confidence + boost > 100 THEN 100 ELSE sugg.confidence + boost

Reranked == pc = "suggested" /\ response.ok

\* C5: every proposal returned by generation and every re-ranked proposal has
\* a confidence in [0, 1]; the re-ranked confidences are min(1.0, original +
\* boost) of the generated proposals.
C5_ConfidenceBounds ==
    pc = "suggested" =>
        /\ \A i \in DOMAIN response.suggestions :
              response.suggestions[i].confidence \in 0..100
        /\ \A i \in DOMAIN suggestions.suggestions :
              suggestions.suggestions[i].confidence \in 0..100
        /\ response.ok =>
              LET claimed == [i \in DOMAIN response.suggestions |->
                                <<response.suggestions[i].base_path,
                                  ClaimedConfidence(response.suggestions[i], preferences)>>]
                  got == [i \in DOMAIN suggestions.suggestions |->
                                <<suggestions.suggestions[i].base_path,
                                  suggestions.suggestions[i].confidence>>]
              IN  /\ Len(got) = Len(claimed)
                  /\ \A x \in Range(claimed) \cup Range(got) : Count(got, x) = Count(claimed, x)

\* a re-ranked set in which the boost is cut off at 1.0
C5_Witness ==
    /\ Reranked
    /\ \E i \in DOMAIN response.suggestions :
          /\ response.suggestions[i].confidence = 100
          /\ \E k \in DOMAIN suggestions.suggestions :
                /\ suggestions.suggestions[k].base_path = response.suggestions[i].base_path
                /\ suggestions.suggestions[k].confidence = 100
    /\ \E i \in DOMAIN response.suggestions : \E k \in DOMAIN suggestions.suggestions :
          /\ suggestions.suggestions[k].base_path = response.suggestions[i].base_path
          /\ suggestions.suggestions[k].confidence > response.suggestions[i].confidence

\* C6: the re-ranked list is ordered by ascending place of the detected
\* strategy in the ranking, and by descending adjusted confidence only among
\* proposals of the same place.
C6_RankThenConfidence ==
    Reranked =>
        \A i, j \in DOMAIN suggestions.suggestions :
            i < j =>
                LET pi == PlaceOf(_detect_strategy(suggestions.suggestions[i].base_path), preferences)
                    pj == PlaceOf(_detect_strategy(suggestions.suggestions[j].base_path), preferences)
                IN  \/ pi < pj
                    \/ /\ pi = pj
                       /\ suggestions.suggestions[i].confidence
                            >= suggestions.suggestions[j].confidence

\* a better-placed strategy precedes a worse-placed one of higher confidence
C6_Witness ==
    /\ Reranked
    /\ Len(suggestions.suggestions) >= 2
    /\ PlaceOf(_detect_strategy(suggestions.suggestions[1].base_path), preferences)
         < PlaceOf(_detect_strategy(suggestions.suggestions[2].base_path), preferences)
    /\ suggestions.suggestions[1].confidence < suggestions.suggestions[2].confidence
    /\ response.suggestions[1].base_path = suggestions.suggestions[2].base_path

----------------------------------------------------------------------------
(* skills/file_organizer/nodes/confirm_selection.py *)

\* confirm_selection: choice 0 stands for 'c' or an interrupt, choice k for the
\* accepted number k (end of input auto-selects 1)
confirm_selection(choice) ==
    IF ~suggestions.ok \/ suggestions.suggestions = <<>>
    THEN /\ errors' = Append(errors, "no_suggestions_to_confirm")
         /\ selected_suggestion' = <<>>
         /\ UNCHANGED user_cancelled
    ELSE /\ choice \in 0..Len(suggestions.suggestions)
         /\ selected_suggestion' = IF choice = 0 THEN <<>>
                                   ELSE <<suggestions.suggestions[choice]>>
         /\ user_cancelled' = (choice = 0)
         /\ UNCHANGED errors

\* the automatic selection that takes the last proposal of the list
auto_confirm_first_TakingLast ==
    IF suggestions.ok /\ suggestions.suggestions # <<>>
    THEN /\ selected_suggestion' = <<suggestions.suggestions[Len(suggestions.suggestions)]>>
         /\ user_cancelled' = FALSE
    ELSE /\ selected_suggestion' = <<>>
         /\ user_cancelled' = TRUE

\* auto_confirm_first
auto_confirm_first ==
    IF suggestions.ok /\ suggestions.suggestions # <<>>
    THEN /\ selected_suggestion' = <<suggestions.suggestions[1]>>
         /\ user_cancelled' = FALSE
    ELSE /\ selected_suggestion' = <<>>
         /\ user_cancelled' = TRUE

----------------------------------------------------------------------------
(* skills/file_organizer/nodes/file_mover.py *)

MaxClock == 2

\* file_lookup = {f.name: f.path for f in files}: the last file of a name wins
file_lookup(fl) ==
    [n \in {fl[i].name : i \in DOMAIN fl} |->
        fl[CHOOSE i \in DOMAIN fl :
              fl[i].name = n /\ \A k \in DOMAIN fl : fl[k].name = n => k <= i].path]

\* the operations of one file list placed in directory dir
NamesOps(dir, names, lookup) ==
    LET known == SelectSeq(names, LAMBDA n : n \in DOMAIN lookup)
    IN  [k \in DOMAIN known |->
            [source |-> lookup[known[k]],
             dest |-> [dir |-> dir, name |-> known[k], stamp |-> 0]]]

FolderOps(folder, lookup) ==
    NamesOps(<<folder.name>>, folder.files, lookup)
    \o Flatten([k \in DOMAIN folder.subfolders |->
                  NamesOps(<<folder.name, folder.subfolders[k].name>>,
                           folder.subfolders[k].files, lookup)])

\* _build_operations; destinations are relative to the base output path
_build_operations(folders, lookup) ==
    Flatten([j \in DOMAIN folders |-> FolderOps(folders[j], lookup)])

Result(status) == [NoResult EXCEPT !.status = status]

\* dest_dir.mkdir(parents=True, exist_ok=True)
Mkdir(existing, dir) == existing \cup {SubSeq(dir, 1, k) : k \in 1..Len(dir)}

\* shutil.copy2 / shutil.move of source onto target: an existing target is replaced
Transfer(fsys, source, target, copy) ==
    [q \in (IF copy THEN DOMAIN fsys ELSE DOMAIN fsys \ {source}) \cup {target} |->
        IF q = target THEN fsys[source] ELSE fsys[q]]

\* the destination actually written: dest.parent / f"{stem}_{timestamp}{suffix}"
\* when dest exists
WriteTarget(fsys, dest, timestamp) ==
    IF dest \in DOMAIN fsys THEN [dest EXCEPT !.stamp = timestamp] ELSE dest

\* the confirmation that runs without being needed
ConfirmNeeded_Always(dr) == TRUE

\* "if not dry_run:" before _confirm_execution
ConfirmNeeded(dr) == ~dr

\* entry of _execute_operations: the dry-run return, or the start of the loop
EnterExecuteOperations(operations, dr) ==
    IF dr
    THEN /\ execution_result' = [Result("dry_run") EXCEPT !.would_process = Len(operations)]
         /\ pc' = "executed"
         /\ UNCHANGED exec
    ELSE /\ exec' = [NoExec EXCEPT !.operations = operations, !.index = 1]
         /\ pc' = "executing"
         /\ UNCHANGED execution_result

\* execute_organization up to the start of the loop of _execute_operations;
\* dr is the value of state["dry_run"], answer the reply to "Proceed? [y/N]"
execute_organization(dr, answer) ==
    LET operations ==
            IF selected_suggestion = <<>> THEN <<>>
            ELSE _build_operations(selected_suggestion[1].folders, file_lookup(files))
    IN  IF user_cancelled
        THEN /\ execution_result' = Result("cancelled")
             /\ pc' = "executed"
             /\ UNCHANGED <<errors, user_cancelled, exec, confirm_asked>>
        ELSE IF selected_suggestion = <<>>
        THEN /\ errors' = Append(errors, "no_suggestion_selected")
             /\ execution_result' = Result("error")
             /\ pc' = "executed"
             /\ UNCHANGED <<user_cancelled, exec, confirm_asked>>
        ELSE IF operations = <<>>
        THEN /\ errors' = Append(errors, "no_valid_operations")
             /\ execution_result' = Result("error")
             /\ pc' = "executed"
             /\ UNCHANGED <<user_cancelled, exec, confirm_asked>>
        ELSE IF ConfirmNeeded(dr)
        THEN /\ confirm_asked' = TRUE
             /\ IF ~answer
                THEN /\ execution_result' = Result("cancelled")
                     /\ user_cancelled' = TRUE
                     /\ pc' = "executed"
                     /\ UNCHANGED <<errors, exec>>
                ELSE /\ UNCHANGED <<errors, user_cancelled>>
                     /\ EnterExecuteOperations(operations, dr)
        ELSE /\ UNCHANGED <<errors, user_cancelled, confirm_asked>>
             /\ EnterExecuteOperations(operations, dr)

\* the result that reports success whatever failed
FinalResult_AlwaysSuccess(e) ==
    [status |-> "success",
     files_processed |-> e.success_count,
     files_failed |-> e.error_count,
     would_process |-> 0,
     directories_created |-> Cardinality(e.created_dirs)]

\* what _execute_operations returns once the loop is over
FinalResult(e) ==
    [status |-> IF e.error_count = 0 THEN "success" ELSE "partial",
     files_processed |-> e.success_count,
     files_failed |-> e.error_count,
     would_process |-> 0,
     directories_created |-> Cardinality(e.created_dirs)]

\* one iteration of the loop of _execute_operations on operation number
\* exec.index; timestamp is the clock when it runs and io what the file system
\* does: "ok", "mkdir_denied" (PermissionError from mkdir), "write_denied"
\* (PermissionError from copy2/move) or "write_error" (any other exception)
Iteration(timestamp, io) ==
    LET op == exec.operations[exec.index]
        dest_dir == op.dest.dir
        needs_mkdir == dest_dir \notin exec.created_dirs
        mkdir_fails == needs_mkdir /\ io = "mkdir_denied"
        target == WriteTarget(fs, op.dest, timestamp)
        outcome == IF mkdir_fails THEN "permission_denied"
                   ELSE IF op.source \notin DOMAIN fs THEN "source_not_found"
                   ELSE IF io = "write_denied" THEN "permission_denied"
                   ELSE IF io = "write_error" THEN "error"
                   ELSE "ok"
        after == [exec EXCEPT
                    !.index = @ + 1,
                    !.created_dirs = IF mkdir_fails THEN @ ELSE @ \cup {dest_dir},
                    !.success_count = IF outcome = "ok" THEN @ + 1 ELSE @,
                    !.error_count = IF outcome = "ok" THEN @ ELSE @ + 1,
                    !.log = Append(@, [op |-> exec.index, outcome |-> outcome,
                                       target |-> target])]
    IN  /\ io = "mkdir_denied" => needs_mkdir
        /\ dirs' = IF needs_mkdir /\ ~mkdir_fails THEN Mkdir(dirs, dest_dir) ELSE dirs
        /\ fs' = IF outcome = "ok" THEN Transfer(fs, op.source, target, use_copy) ELSE fs
        /\ exec' = after
        /\ now' = timestamp
        /\ IF after.index > Len(exec.operations)
           THEN /\ execution_result' = FinalResult(after)
                /\ pc' = "executed"
           ELSE /\ UNCHANGED execution_result
                /\ pc' = "executing"

----------------------------------------------------------------------------
(* v0.1/nodes/learning_node.py and PreferenceStore.record_choice *)

KW_type == <<"t", "y", "p", "e">>

KW_event == <<"e", "v", "e", "n", "t">>

KW_location == <<"l", "o", "c", "a", "t", "i", "o", "n">>

\* learning_node._detect_strategy
learning_detect_strategy(base_path) ==
    LET base_lower == Lower(base_path)
    IN  IF IsSubstring(KW_content, base_lower) \/ IsSubstring(KW_type, base_lower)
        THEN "by_content"
        ELSE IF IsSubstring(KW_activity, base_lower) \/ IsSubstring(KW_event, base_lower)
        THEN "by_activity"
        ELSE IF IsSubstring(KW_setting, base_lower) \/ IsSubstring(KW_location, base_lower)
        THEN "by_setting"
        ELSE "by_content"

\* self.preferences["history"][-100:]
MaxHistory == 100

\* a slice that keeps the oldest n entries instead
LastN_KeepingOldest(seq, n) == IF Len(seq) <= n THEN seq ELSE SubSeq(seq, 1, n)

LastN(seq, n) == IF Len(seq) <= n THEN seq ELSE SubSeq(seq, Len(seq) - n + 1, Len(seq))

\* PreferenceStore.record_choice (timestamps left out)
record_choice(prefs, strategy, suggestion_index, total_suggestions, files_organized, was_modified) ==
    [prefs EXCEPT
        !.strategy_scores =
            IF strategy \in DOMAIN @
            THEN [@ EXCEPT ![strategy] = @ + (total_suggestions - suggestion_index)]
            ELSE @,
        !.history = LastN(Append(@, [strategy |-> strategy,
                                     suggestion_index |-> suggestion_index,
                                     files_organized |-> files_organized,
                                     was_modified |-> was_modified]),
                          MaxHistory),
        !.stats = [@ EXCEPT
            !.total_organizations = @ + 1,
            !.total_files_organized = @ + files_organized,
            !.suggestions_modified = IF was_modified THEN @ + 1 ELSE @,
            !.suggestions_accepted = IF was_modified THEN @ ELSE @ + 1]]

\* PreferenceStore.learn_folder_name
learn_folder_name(prefs, scene_type, preferred_name) ==
    [prefs EXCEPT !.folder_names =
        {q \in @ : q[1] # scene_type} \cup {<<scene_type, preferred_name>>}]

\* _detect_scene_from_folder: <<>> for None, <<scene>> otherwise
_detect_scene_from_folder(folder, analysis) ==
    LET described == {i \in DOMAIN analysis : analysis[i].scene_type # ""}
        mapped == {analysis[i].file_name : i \in described}
        scene_of(n) == analysis[CHOOSE i \in described :
                            /\ analysis[i].file_name = n
                            /\ \A k \in described : analysis[k].file_name = n => k <= i].scene_type
        known == SelectSeq(folder.files, LAMBDA n : n \in mapped)
        scenes == [k \in DOMAIN known |-> scene_of(known[k])]
        first(sc) == CHOOSE k \in DOMAIN scenes :
                        scenes[k] = sc /\ \A m \in 1..(k - 1) : scenes[m] # sc
    IN  IF scenes = <<>> THEN <<>>
        ELSE <<CHOOSE sc \in Range(scenes) :
                  \A other \in Range(scenes) :
                      \/ Count(scenes, sc) > Count(scenes, other)
                      \/ Count(scenes, sc) = Count(scenes, other) /\ first(sc) <= first(other)>>

RECURSIVE LearnFolderNames(_, _, _)
\* the loop "for folder in selected.folder_structure.folders"
LearnFolderNames(prefs, folders, analysis) ==
    IF folders = <<>> THEN prefs
    ELSE LET scene == _detect_scene_from_folder(Head(folders), analysis)
         IN  LearnFolderNames(
                 IF scene # <<>> THEN learn_folder_name(prefs, scene[1], Head(folders).name)
                 ELSE prefs,
                 Tail(folders), analysis)

RECURSIVE FilesOrganized(_)
\* sum(folder.get_total_files() for folder in selected.folder_structure.folders)
FilesOrganized(folders) ==
    IF folders = <<>> THEN 0
    ELSE get_total_files(Head(folders)) + FilesOrganized(Tail(folders))

\* index of the first offered proposal whose base path equals the selected one's
ChosenIndex(selected, offered) ==
    IF offered.ok /\ \E i \in DOMAIN offered.suggestions :
                        offered.suggestions[i].base_path = selected.base_path
    THEN (CHOOSE i \in DOMAIN offered.suggestions :
            /\ offered.suggestions[i].base_path = selected.base_path
            /\ \A k \in 1..(i - 1) : offered.suggestions[k].base_path # selected.base_path) - 1
    ELSE 0

\* the early returns of learn_from_choice, without the check of the status
ShouldLearn_IgnoringStatus == ~user_cancelled /\ selected_suggestion # <<>>

\* the early returns of learn_from_choice
ShouldLearn ==
    /\ ~user_cancelled
    /\ execution_result.status \in {"success", "partial"}
    /\ selected_suggestion # <<>>

\* learn_from_choice: the record the store holds (and has saved) afterwards
learn_from_choice ==
    IF ~ShouldLearn THEN preferences
    ELSE LET selected == selected_suggestion[1]
             offered_ok == suggestions.ok /\ suggestions.suggestions # <<>>
             recorded == record_choice(
                            preferences,
                            learning_detect_strategy(selected.base_path),
                            ChosenIndex(selected, suggestions),
                            IF offered_ok THEN Len(suggestions.suggestions) ELSE 1,
                            FilesOrganized(selected.folders),
                            FALSE)
         IN  LearnFolderNames(recorded, selected.folders, image_analysis)

----------------------------------------------------------------------------
(* Selection, execution and learning: main() from the confirmation on *)

NameD == <<"D">>

NameS == <<"S">>

\* raw proposals: one file; one file twice in a folder; a file in a folder and
\* one in its subfolder; only a name that is not an input file
ActSuggestions ==
    {[base_path |-> BP_Content, confidence |-> 900, has_folders |-> TRUE,
      folders |-> <<[name |-> NameD, files |-> <<"a">>, subfolders |-> <<>>]>>],
     [base_path |-> BP_Activity, confidence |-> 800, has_folders |-> TRUE,
      folders |-> <<[name |-> NameD, files |-> <<"a", "a">>, subfolders |-> <<>>]>>],
     [base_path |-> BP_Setting, confidence |-> 850, has_folders |-> TRUE,
      folders |-> <<[name |-> NameD, files |-> <<"a">>,
                     subfolders |-> <<[name |-> NameS, files |-> <<"b">>]>>]>>],
     [base_path |-> BP_Setting, confidence |-> 870, has_folders |-> TRUE,
      folders |-> <<[name |-> NameD, files |-> <<"x">>, subfolders |-> <<>>]>>]}

ActReplies == {Reply(ss) : ss \in SeqsUpTo(ActSuggestions, MaxSuggestions)}

\* the store as first created, and as left by one earlier organisation
ActPreferences ==
    {_default_preferences,
     record_choice(_default_preferences, "by_setting", 0, 1, 1, FALSE)}

ActFiles == {FilesNamed(<<"a", "b">>), FilesNamed(<<"a", "a">>)}

\* files already in the output directory D: "a", and "a" carrying the stamp of
\* the first second
ExistingOutputs ==
    {{},
     {[dir |-> <<NameD>>, name |-> "a", stamp |-> 0]},
     {[dir |-> <<NameD>>, name |-> "a", stamp |-> 0],
      [dir |-> <<NameD>>, name |-> "a", stamp |-> 1]}}

ActAnalysis == <<[file_name |-> "a", scene_type |-> "beach"]>>

\* what analyze_with_llm leaves in state["suggestions"] for a parsed reply
Offered(resp, prefs) ==
    IF ReRankRaises(resp, prefs) THEN resp ELSE apply_preferences(resp, prefs)

\* the state main() holds after the analysis graph has run
\* errors the analysis graph can leave while still producing proposals:
\* validate_input met one missing path among valid ones
EarlierErrors == {<<>>, <<"path_does_not_exist">>}

\* the end of main(): sys.exit(1) if state.get("errors") else sys.exit(0)
ExitCode(errs) == IF errs # <<>> THEN 1 ELSE 0

InitAct ==
    /\ pc = "suggested"
    /\ files \in ActFiles
    /\ raw_response \in ActReplies
    /\ data = raw_response
    /\ response = SuggestionResponse(data)
    /\ preferences \in ActPreferences
    /\ suggestions = Offered(response, preferences)
    /\ errors \in {earlier \o (IF response.ok THEN <<>> ELSE <<"provider_parse_error">>) :
                    earlier \in EarlierErrors}
    /\ warnings = <<>>
    /\ image_analysis = ActAnalysis
    /\ selected_suggestion = <<>>
    /\ user_cancelled = FALSE
    /\ dry_run \in BOOLEAN
    /\ use_copy \in BOOLEAN
    /\ execution_result = NoResult
    /\ \E existing \in ExistingOutputs, lost \in {{}, {files[1].path}} :
          /\ fs = [q \in ({files[i].path : i \in DOMAIN files} \ lost) \cup existing |-> q]
          /\ dirs = IF existing = {} THEN {} ELSE {<<NameD>>}
    /\ exec = NoExec
    /\ now = 1
    /\ confirm_asked = FALSE
    /\ exit_code = <<>>
    /\ PipeIdle
    /\ StoreIdle

\* main(): "No suggestions to execute", sys.exit(1)
MainNoSuggestions ==
    /\ pc = "suggested"
    /\ ~suggestions.ok \/ suggestions.suggestions = <<>>
    /\ pc' = "exit"
    /\ exit_code' = <<1>>
    /\ UNCHANGED <<files, genVars, preferences, suggestions, ledgerVars, actVars>>
    /\ UNCHANGED <<pipeVars, storeVars>>

HasSuggestions == suggestions.ok /\ suggestions.suggestions # <<>>

\* main() without --yes: state = confirm_selection(state)
ConfirmSelection ==
    /\ pc = "suggested"
    /\ HasSuggestions
    /\ \E choice \in 0..Len(suggestions.suggestions) : confirm_selection(choice)
    /\ pc' = "selected"
    /\ UNCHANGED <<files, genVars, preferences, suggestions, warnings, image_analysis,
                   dry_run, use_copy, execution_result, fs, dirs, exec, now, confirm_asked>>
    /\ UNCHANGED <<exit_code, pipeVars, storeVars>>

\* main() with --yes: state = auto_confirm_first(state)
AutoConfirmFirst ==
    /\ pc = "suggested"
    /\ HasSuggestions
    /\ auto_confirm_first
    /\ pc' = "selected"
    /\ UNCHANGED <<files, genVars, preferences, suggestions, ledgerVars, image_analysis,
                   dry_run, use_copy, execution_result, fs, dirs, exec, now, confirm_asked>>
    /\ UNCHANGED <<exit_code, pipeVars, storeVars>>

\* main(): "Operation cancelled", or nothing selected: neither node is called
MainSkip ==
    /\ pc = "selected"
    /\ user_cancelled \/ selected_suggestion = <<>>
    /\ pc' = "exit"
    /\ exit_code' = IF user_cancelled THEN <<0>> ELSE <<ExitCode(errors)>>
    /\ UNCHANGED <<files, genVars, preferences, suggestions, ledgerVars, actVars>>
    /\ UNCHANGED <<pipeVars, storeVars>>

\* main(): state = execute_organization(state)
ExecuteOrganization ==
    /\ pc = "selected"
    /\ ~user_cancelled /\ selected_suggestion # <<>>
    /\ \E answer \in BOOLEAN : execute_organization(dry_run, answer)
    /\ UNCHANGED <<files, genVars, preferences, suggestions, warnings, image_analysis,
                   selected_suggestion, dry_run, use_copy, fs, dirs, now>>
    /\ UNCHANGED <<exit_code, pipeVars, storeVars>>

\* dry_run_organization(state), called on any state a selection node left
DryRunOrganization ==
    /\ pc = "selected"
    /\ dry_run' = TRUE
    /\ \E answer \in BOOLEAN : execute_organization(TRUE, answer)
    /\ UNCHANGED <<files, genVars, preferences, suggestions, warnings, image_analysis,
                   selected_suggestion, use_copy, fs, dirs, now>>
    /\ UNCHANGED <<exit_code, pipeVars, storeVars>>

IOOutcomes == {"ok", "mkdir_denied", "write_denied", "write_error"}

\* one iteration of "for op in operations"; the clock does not run backwards
ExecuteOperation ==
    /\ pc = "executing"
    /\ \E timestamp \in now..MaxClock, io \in IOOutcomes : Iteration(timestamp, io)
    /\ UNCHANGED <<files, genVars, preferences, suggestions, ledgerVars, image_analysis,
                   selected_suggestion, user_cancelled, dry_run, use_copy, confirm_asked>>
    /\ UNCHANGED <<exit_code, pipeVars, storeVars>>

\* state = learn_from_choice(state)
LearnFromChoice ==
    /\ pc = "executed"
    /\ pc' = "done"
    /\ preferences' = learn_from_choice
    /\ UNCHANGED <<files, genVars, suggestions, ledgerVars, actVars>>
    /\ UNCHANGED <<exit_code, pipeVars, storeVars>>

\* main() without --execute and without --dry-run: the hint, then the exit code
MainAnalysisOnly ==
    /\ pc = "suggested"
    /\ ~dry_run
    /\ pc' = "exit"
    /\ exit_code' = <<ExitCode(errors)>>
    /\ UNCHANGED <<files, genVars, preferences, suggestions, ledgerVars, actVars>>
    /\ UNCHANGED <<pipeVars, storeVars>>

\* main() after learn_from_choice: the result line, then the exit code
MainExit ==
    /\ pc = "done"
    /\ pc' = "exit"
    /\ exit_code' = <<ExitCode(errors)>>
    /\ UNCHANGED <<files, genVars, preferences, suggestions, ledgerVars, actVars>>
    /\ UNCHANGED <<pipeVars, storeVars>>

NextAct ==
    \/ MainAnalysisOnly
    \/ MainExit
    \/ MainNoSuggestions
    \/ ConfirmSelection
    \/ AutoConfirmFirst
    \/ MainSkip
    \/ ExecuteOrganization
    \/ DryRunOrganization
    \/ ExecuteOperation
    \/ LearnFromChoice

SpecAct == InitAct /\ [][NextAct]_vars

----------------------------------------------------------------------------
(* Claims about execution and learning *)

\* the operations execute_organization builds from the selected proposal
BuiltOperations ==
    IF selected_suggestion = <<>> THEN <<>>
    ELSE _build_operations(selected_suggestion[1].folders, file_lookup(files))

\* the operation the loop is about to run
CurrentOp == exec.operations[exec.index]

\* C7: the executor never overwrites an existing file: when the destination of
\* the operation reached already exists and the operation writes, it writes to
\* a path other than the destination, carrying the stamp of the current second
\* in the same directory, where no file was; every file that existed (the one
\* at the destination included) keeps its content, only a moved source
\* disappears, and the operation is counted as a success.
C7_NeverOverwrites ==
    [][(/\ pc = "executing"
        /\ CurrentOp.dest \in DOMAIN fs
        /\ exec'.log[Len(exec'.log)].outcome = "ok")
       => LET target == exec'.log[Len(exec'.log)].target
          IN  /\ target # CurrentOp.dest
              /\ target = [CurrentOp.dest EXCEPT !.stamp = now']
              /\ target \notin DOMAIN fs
              /\ fs'[CurrentOp.dest] = fs[CurrentOp.dest]
              /\ \A q \in DOMAIN fs \ {CurrentOp.source} :
                    q \in DOMAIN fs' /\ fs'[q] = fs[q]
              /\ exec'.success_count = exec.success_count + 1]_vars

\* C8: in an execution that is not a dry run every operation is attempted once,
\* in list order, whatever failed before; at the end files_processed +
\* files_failed is the number of operations, the status is "success" iff
\* nothing failed, "partial" iff something failed, and "error" iff no operation
\* could be built.
C8_BatchCompletes ==
    /\ pc = "executing" =>
          /\ Len(exec.log) = exec.index - 1
          /\ \A k \in DOMAIN exec.log : exec.log[k].op = k
    /\ (pc \in {"executed", "done"} /\ ~dry_run) =>
          LET r == execution_result
              failed == Cardinality({k \in DOMAIN exec.log : exec.log[k].outcome # "ok"})
          IN  /\ r.status \in {"success", "partial", "error", "cancelled"}
              /\ r.status = "error" <=> BuiltOperations = <<>>
              /\ r.status = "cancelled" => exec.log = <<>>
              /\ r.status \in {"success", "partial"} =>
                    /\ exec.operations = BuiltOperations
                    /\ Len(exec.log) = Len(BuiltOperations)
                    /\ \A k \in DOMAIN exec.log : exec.log[k].op = k
                    /\ r.files_failed = failed
                    /\ r.files_processed + r.files_failed = Len(BuiltOperations)
                    /\ r.status = "success" <=> r.files_failed = 0
                    /\ r.status = "partial" <=> r.files_failed > 0

\* a batch whose first operation failed and whose second was still carried out
C8_Witness ==
    /\ pc = "executed"
    /\ ~dry_run
    /\ execution_result.status = "partial"
    /\ Len(exec.log) = 2
    /\ exec.log[1].outcome # "ok"
    /\ exec.log[2].outcome = "ok"

\* C9 as stated: whenever dry_run is set, execute_organization creates no
\* directory, moves or copies no file, asks no confirmation, and the result is
\* "dry_run" with would_process the number of operations built.
C9_DryRunAlwaysPreview ==
    [][(pc = "selected" /\ pc' # "exit" /\ dry_run')
       => /\ fs' = fs /\ dirs' = dirs
          /\ confirm_asked' = confirm_asked
          /\ execution_result'.status = "dry_run"
          /\ execution_result'.would_process = Len(BuiltOperations)]_vars

\* C9: with dry_run set nothing is created, moved or copied and no confirmation
\* is asked; the result is "dry_run" with would_process the number of
\* operations built when the user has not cancelled, a proposal is selected and
\* at least one operation can be built; it is "cancelled" after a cancellation
\* and "error" when nothing is selected or no operation can be built.
C9_DryRunPreview ==
    [][/\ dry_run' => /\ fs' = fs /\ dirs' = dirs
                      /\ confirm_asked' = confirm_asked
                      /\ pc' # "executing"
       /\ (pc = "selected" /\ pc' # "exit" /\ dry_run') =>
             IF user_cancelled
             THEN execution_result'.status = "cancelled"
             ELSE IF selected_suggestion = <<>> \/ BuiltOperations = <<>>
             THEN execution_result'.status = "error"
             ELSE /\ execution_result'.status = "dry_run"
                  /\ execution_result'.would_process = Len(BuiltOperations)]_vars

\* a dry run over two operations, one of them onto an existing file
C9_Witness ==
    /\ pc = "executed"
    /\ dry_run
    /\ execution_result.status = "dry_run"
    /\ execution_result.would_process = 2
    /\ \E k \in DOMAIN BuiltOperations : BuiltOperations[k].dest \in DOMAIN fs
    /\ ~confirm_asked

\* C10: the preference record changes only when the user has not cancelled, a
\* proposal is selected and the execution status is "success" or "partial";
\* after a cancelled, dry-run or error execution it is unchanged.
C10_LearnOnlyAfterExecution ==
    [][/\ preferences' # preferences =>
             /\ ~user_cancelled
             /\ selected_suggestion # <<>>
             /\ execution_result.status \in {"success", "partial"}
       /\ execution_result.status \in {"cancelled", "dry_run", "error"} =>
             preferences' = preferences]_vars

\* learning has recorded a choice after an execution that partly failed
C10_Witness ==
    /\ pc = "done"
    /\ execution_result.status = "partial"
    /\ ~user_cancelled
    /\ preferences \notin ActPreferences
    /\ preferences.stats.total_organizations >= 1

\* C12: on every path through main the process exits with code 1 if the
\* errors list is non-empty at exit, and with code 0 otherwise.
C12_ExitCode == pc = "exit" => exit_code = <<ExitCode(errors)>>

\* C15 as stated: auto_confirm_first selects the proposal with the highest
\* confidence among the offered (re-ranked) proposals.
C15_AutoSelectsHighest ==
    [][AutoConfirmFirst =>
          /\ selected_suggestion' # <<>>
          /\ \A i \in DOMAIN suggestions.suggestions :
                suggestions.suggestions[i].confidence <= selected_suggestion'[1].confidence]_vars

\* C15: auto_confirm_first selects the first proposal of the offered list and
\* clears user_cancelled; in the re-ranked list no other proposal has a better
\* strategy place, and none of the same place has a higher confidence.
C15_AutoSelectsFirstRanked ==
    [][AutoConfirmFirst =>
          /\ selected_suggestion' = <<suggestions.suggestions[1]>>
          /\ ~user_cancelled'
          /\ \A i \in DOMAIN suggestions.suggestions :
                LET chosen == selected_suggestion'[1]
                    other == suggestions.suggestions[i]
                    pc1 == PlaceOf(_detect_strategy(chosen.base_path), preferences)
                    pci == PlaceOf(_detect_strategy(other.base_path), preferences)
                IN  \/ pc1 < pci
                    \/ pc1 = pci /\ chosen.confidence >= other.confidence]_vars

\* the first proposal was selected although another one has a higher confidence
C15_Witness ==
    /\ pc = "selected"
    /\ ~user_cancelled
    /\ selected_suggestion = <<suggestions.suggestions[1]>>
    /\ \E i \in DOMAIN suggestions.suggestions :
          suggestions.suggestions[i].confidence > selected_suggestion[1].confidence

----------------------------------------------------------------------------
(* v0.1/nodes/classify_files.py.  A file record of the analysis graph is      *)
(* [name, path, extension, content_type, content_preview, parent_directory];  *)
(* an extension is a sequence of characters, "" stands for a preview of None. *)

\* IMAGE_EXTENSIONS
IMAGE_EXTENSIONS ==
    {<<".", "j", "p", "g">>, <<".", "j", "p", "e", "g">>, <<".", "p", "n", "g">>,
     <<".", "g", "i", "f">>, <<".", "b", "m", "p">>, <<".", "w", "e", "b", "p">>,
     <<".", "s", "v", "g">>, <<".", "t", "i", "f", "f">>, <<".", "t", "i", "f">>,
     <<".", "i", "c", "o">>, <<".", "h", "e", "i", "c">>, <<".", "h", "e", "i", "f">>,
     <<".", "r", "a", "w">>, <<".", "c", "r", "2">>, <<".", "n", "e", "f">>}

\* TEXT_EXTENSIONS
TEXT_EXTENSIONS ==
    {<<".", "t", "x", "t">>, <<".", "m", "d">>,
     <<".", "m", "a", "r", "k", "d", "o", "w", "n">>, <<".", "r", "s", "t">>,
     <<".", "l", "o", "g">>, <<".", "p", "y">>, <<".", "j", "s">>, <<".", "t", "s">>,
     <<".", "j", "s", "x">>, <<".", "t", "s", "x">>, <<".", "j", "a", "v", "a">>,
     <<".", "c", "p", "p">>, <<".", "c">>, <<".", "h">>, <<".", "c", "s">>,
     <<".", "g", "o">>, <<".", "r", "s">>, <<".", "r", "b">>, <<".", "p", "h", "p">>,
     <<".", "s", "w", "i", "f", "t">>, <<".", "k", "t">>,
     <<".", "s", "c", "a", "l", "a">>, <<".", "h", "t", "m", "l">>,
     <<".", "c", "s", "s">>, <<".", "s", "c", "s", "s">>, <<".", "s", "a", "s", "s">>,
     <<".", "x", "m", "l">>, <<".", "j", "s", "o", "n">>, <<".", "y", "a", "m", "l">>,
     <<".", "y", "m", "l">>, <<".", "s", "h">>, <<".", "b", "a", "s", "h">>,
     <<".", "s", "q", "l">>, <<".", "r">>, <<".", "m">>}

\* DOCUMENT_EXTENSIONS
DOCUMENT_EXTENSIONS ==
    {<<".", "p", "d", "f">>, <<".", "d", "o", "c">>, <<".", "d", "o", "c", "x">>,
     <<".", "o", "d", "t">>, <<".", "r", "t", "f">>, <<".", "x", "l", "s">>,
     <<".", "x", "l", "s", "x">>, <<".", "o", "d", "s">>, <<".", "c", "s", "v">>,
     <<".", "p", "p", "t">>, <<".", "p", "p", "t", "x">>, <<".", "o", "d", "p">>}

\* the branch taken for a file whose extension is compared as it is written
get_file_category_CaseSensitive(file) ==
    LET extension == file.extension
    IN  IF extension \in IMAGE_EXTENSIONS THEN "image"
        ELSE IF extension \in TEXT_EXTENSIONS THEN "text"
        ELSE IF extension \in DOCUMENT_EXTENSIONS THEN "document"
        ELSE "other"

\* the if/elif chain of classify_files (and get_file_category)
get_file_category(file) ==
    LET extension == Lower(file.extension)
    IN  IF extension \in IMAGE_EXTENSIONS THEN "image"
        ELSE IF extension \in TEXT_EXTENSIONS THEN "text"
        ELSE IF extension \in DOCUMENT_EXTENSIONS THEN "document"
        ELSE "other"

\* the list one category receives: appended in the order of the input
Classified(file_list, category) ==
    SelectSeq(file_list, LAMBDA f : get_file_category(f) = category)

\* classify_files
classify_files ==
    /\ image_files' = Classified(files, "image")
    /\ text_files' = Classified(files, "text")
    /\ document_files' = Classified(files, "document")
    /\ other_files' = Classified(files, "other")
    /\ warnings' = IF Len(files) > 0 THEN Append(warnings, "classified_summary")
                   ELSE warnings

\* an entry of the node log: the node, and what the provider probe it made
\* answered ("" when the node makes none)
Stage(node, probe) == [node |-> node, probe |-> probe]

\* graph node classify_files
ClassifyFiles ==
    /\ pc = "extracted"
    /\ classify_files
    /\ stages' = Append(stages, Stage("classify_files", ""))
    /\ unset' = unset \ {"image_files", "text_files", "document_files", "other_files"}
    /\ pc' = "classified"
    /\ UNCHANGED <<files, genVars, preferences, suggestions, errors, actVars, exit_code,
                   input_paths, file_paths, text_analysis, document_analysis,
                   aggregated_analysis, vision_calls, llm_calls, storeVars>>

Ext_jpg == <<".", "j", "p", "g">>

Ext_JPG == <<".", "J", "P", "G">>

Ext_py == <<".", "p", "y">>

Ext_txt == <<".", "t", "x", "t">>

Ext_pdf == <<".", "p", "d", "f">>

Ext_xyz == <<".", "x", "y", "z">>

\* a file record as _extract_file_metadata builds it (dates and size left out)
FileMetadata(name, extension, content_type, content_preview) ==
    [name |-> name,
     path |-> [dir |-> <<InputDirs[1]>>, name |-> name, stamp |-> 0],
     extension |-> extension,
     content_type |-> content_type,
     content_preview |-> content_preview,
     parent_directory |-> InputDirs[1]]

File_a_jpg == FileMetadata("a.jpg", Ext_jpg, "image", "")

File_A_JPG == FileMetadata("A.JPG", Ext_JPG, "image", "")

File_b_py == FileMetadata("b.py", Ext_py, "code", "print")

File_n_txt == FileMetadata("n.txt", Ext_txt, "text", "")

File_c_pdf == FileMetadata("c.pdf", Ext_pdf, "document", "")

File_d_xyz == FileMetadata("d.xyz", Ext_xyz, "unknown", "")

MaxClassified == 4

\* file records handed to classify_files directly
ClassifyInputs == {File_a_jpg, File_A_JPG, File_b_py, File_c_pdf, File_d_xyz}

InitClassify ==
    /\ pc = "extracted"
    /\ files \in SeqsUpTo(ClassifyInputs, MaxClassified)
    /\ raw_response = Reply(<<>>)
    /\ data = raw_response
    /\ response = NoResponse
    /\ preferences = _default_preferences
    /\ suggestions = NoResponse
    /\ errors = <<>>
    /\ warnings = <<>>
    /\ ActIdle

NextClassify == ClassifyFiles

SpecClassify == InitClassify /\ [][NextClassify]_vars

RECURSIVE Pick(_, _)
\* the subsequence of file_list at the positions of set idx, in input order
Pick(file_list, idx) ==
    IF file_list = <<>> THEN <<>>
    ELSE LET n == Len(file_list)
             front == Pick(SubSeq(file_list, 1, n - 1), idx \ {n})
         IN  IF n \in idx THEN Append(front, file_list[n]) ELSE front

\* C16: classify_files puts every file record into exactly one of the four
\* lists, by lower-cased extension with precedence image, text, document, and
\* other for the rest; the lists partition the input and keep its order.
C16_Partition ==
    pc = "classified" =>
        LET img == {i \in DOMAIN files : Lower(files[i].extension) \in IMAGE_EXTENSIONS}
            txt == {i \in DOMAIN files : Lower(files[i].extension) \in TEXT_EXTENSIONS} \ img
            doc == {i \in DOMAIN files : Lower(files[i].extension) \in DOCUMENT_EXTENSIONS}
                      \ (img \cup txt)
            oth == DOMAIN files \ (img \cup txt \cup doc)
        IN  /\ image_files = Pick(files, img)
            /\ text_files = Pick(files, txt)
            /\ document_files = Pick(files, doc)
            /\ other_files = Pick(files, oth)
            /\ Len(image_files) + Len(text_files) + Len(document_files) + Len(other_files)
                  = Len(files)
            /\ \A f \in Range(files) :
                  Count(image_files, f) + Count(text_files, f) + Count(document_files, f)
                     + Count(other_files, f) = Count(files, f)

\* a.jpg, b.py, c.pdf, d.xyz classified into image, text, document, other
C16_Witness ==
    /\ pc = "classified"
    /\ files = <<File_a_jpg, File_b_py, File_c_pdf, File_d_xyz>>
    /\ image_files = <<File_a_jpg>>
    /\ text_files = <<File_b_py>>
    /\ document_files = <<File_c_pdf>>
    /\ other_files = <<File_d_xyz>>

----------------------------------------------------------------------------
(* skills/file_organizer/nodes/analyze_text.py.  A table is a set of          *)
(* <<key, value>> pairs.                                                      *)

\* EXTENSION_LANGUAGE_MAP
EXTENSION_LANGUAGE_MAP ==
    {<<<<".", "p", "y">>, "python">>, <<<<".", "j", "s">>, "javascript">>,
     <<<<".", "t", "s">>, "typescript">>, <<<<".", "j", "s", "x">>, "javascript">>,
     <<<<".", "t", "s", "x">>, "typescript">>, <<<<".", "j", "a", "v", "a">>, "java">>,
     <<<<".", "c", "p", "p">>, "c++">>, <<<<".", "c">>, "c">>, <<<<".", "h">>, "c">>,
     <<<<".", "c", "s">>, "c#">>, <<<<".", "g", "o">>, "go">>,
     <<<<".", "r", "s">>, "rust">>, <<<<".", "r", "b">>, "ruby">>,
     <<<<".", "p", "h", "p">>, "php">>, <<<<".", "s", "w", "i", "f", "t">>, "swift">>,
     <<<<".", "k", "t">>, "kotlin">>, <<<<".", "s", "c", "a", "l", "a">>, "scala">>,
     <<<<".", "r">>, "r">>, <<<<".", "R">>, "r">>, <<<<".", "s", "h">>, "shell">>,
     <<<<".", "b", "a", "s", "h">>, "shell">>, <<<<".", "z", "s", "h">>, "shell">>,
     <<<<".", "p", "s", "1">>, "powershell">>, <<<<".", "b", "a", "t">>, "batch">>,
     <<<<".", "h", "t", "m", "l">>, "html">>, <<<<".", "c", "s", "s">>, "css">>,
     <<<<".", "s", "c", "s", "s">>, "scss">>, <<<<".", "s", "q", "l">>, "sql">>,
     <<<<".", "l", "u", "a">>, "lua">>, <<<<".", "p", "l">>, "perl">>,
     <<<<".", "d", "a", "r", "t">>, "dart">>, <<<<".", "e", "x">>, "elixir">>,
     <<<<".", "e", "x", "s">>, "elixir">>, <<<<".", "h", "s">>, "haskell">>,
     <<<<".", "m", "l">>, "ocaml">>, <<<<".", "c", "l", "j">>, "clojure">>,
     <<<<".", "v", "u", "e">>, "vue">>, <<<<".", "s", "v", "e", "l", "t", "e">>, "svelte">>}

\* EXTENSION_DOCTYPE_MAP of analyze_text.py
TEXT_DOCTYPE_MAP ==
    {<<<<".", "p", "y">>, "code">>, <<<<".", "j", "s">>, "code">>,
     <<<<".", "t", "s">>, "code">>, <<<<".", "j", "s", "x">>, "code">>,
     <<<<".", "t", "s", "x">>, "code">>, <<<<".", "j", "a", "v", "a">>, "code">>,
     <<<<".", "c", "p", "p">>, "code">>, <<<<".", "c">>, "code">>, <<<<".", "h">>, "code">>,
     <<<<".", "c", "s">>, "code">>, <<<<".", "g", "o">>, "code">>,
     <<<<".", "r", "s">>, "code">>, <<<<".", "r", "b">>, "code">>,
     <<<<".", "p", "h", "p">>, "code">>, <<<<".", "s", "w", "i", "f", "t">>, "code">>,
     <<<<".", "k", "t">>, "code">>, <<<<".", "s", "c", "a", "l", "a">>, "code">>,
     <<<<".", "r">>, "code">>, <<<<".", "R">>, "code">>, <<<<".", "s", "h">>, "code">>,
     <<<<".", "b", "a", "s", "h">>, "code">>, <<<<".", "z", "s", "h">>, "code">>,
     <<<<".", "p", "s", "1">>, "code">>, <<<<".", "b", "a", "t">>, "code">>,
     <<<<".", "h", "t", "m", "l">>, "code">>, <<<<".", "c", "s", "s">>, "code">>,
     <<<<".", "s", "c", "s", "s">>, "code">>, <<<<".", "s", "q", "l">>, "code">>,
     <<<<".", "l", "u", "a">>, "code">>, <<<<".", "p", "l">>, "code">>,
     <<<<".", "d", "a", "r", "t">>, "code">>, <<<<".", "e", "x">>, "code">>,
     <<<<".", "e", "x", "s">>, "code">>, <<<<".", "h", "s">>, "code">>,
     <<<<".", "m", "l">>, "code">>, <<<<".", "c", "l", "j">>, "code">>,
     <<<<".", "v", "u", "e">>, "code">>, <<<<".", "s", "v", "e", "l", "t", "e">>, "code">>,
     <<<<".", "j", "s", "o", "n">>, "config">>, <<<<".", "y", "a", "m", "l">>, "config">>,
     <<<<".", "y", "m", "l">>, "config">>, <<<<".", "t", "o", "m", "l">>, "config">>,
     <<<<".", "i", "n", "i">>, "config">>, <<<<".", "c", "f", "g">>, "config">>,
     <<<<".", "e", "n", "v">>, "config">>, <<<<".", "x", "m", "l">>, "config">>,
     <<<<".", "p", "r", "o", "p", "e", "r", "t", "i", "e", "s">>, "config">>,
     <<<<".", "e", "d", "i", "t", "o", "r", "c", "o", "n", "f", "i", "g">>, "config">>,
     <<<<".", "m", "d">>, "readme">>, <<<<".", "r", "s", "t">>, "readme">>,
     <<<<".", "a", "d", "o", "c">>, "readme">>, <<<<".", "l", "o", "g">>, "log">>,
     <<<<".", "c", "s", "v">>, "data">>, <<<<".", "t", "s", "v">>, "data">>,
     <<<<".", "j", "s", "o", "n", "l">>, "data">>,
     <<<<".", "n", "d", "j", "s", "o", "n">>, "data">>, <<<<".", "t", "x", "t">>, "notes">>,
     <<<<".", "t", "e", "x", "t">>, "notes">>,
     <<<<".", "g", "i", "t", "i", "g", "n", "o", "r", "e">>, "config">>,
     <<<<".", "d", "o", "c", "k", "e", "r", "i", "g", "n", "o", "r", "e">>, "config">>,
     <<<<"M", "a", "k", "e", "f", "i", "l", "e">>, "config">>,
     <<<<"D", "o", "c", "k", "e", "r", "f", "i", "l", "e">>, "config">>}

Keys(table) == {entry[1] : entry \in table}

Lookup(table, key) == (CHOOSE entry \in table : entry[1] = key)[2]

\* _build_base_analysis (size left out; "" stands for None)
_build_base_analysis(file) ==
    [file_path |-> file.path,
     file_name |-> file.name,
     content_type |-> file.content_type,
     extension |-> file.extension,
     content_preview |-> file.content_preview,
     parent_directory |-> file.parent_directory,
     topics |-> <<>>,
     document_type |-> "other",
     language |-> "",
     summary |-> ""]

\* analysis.update(_heuristic_classify(file))
HeuristicRecord(file) ==
    LET ext == Lower(file.extension)
        base == _build_base_analysis(file)
    IN  [base EXCEPT
            !.language = IF ext \in Keys(EXTENSION_LANGUAGE_MAP)
                         THEN Lookup(EXTENSION_LANGUAGE_MAP, ext) ELSE @,
            !.document_type = IF ext \in Keys(TEXT_DOCTYPE_MAP)
                              THEN Lookup(TEXT_DOCTYPE_MAP, ext)
                              ELSE IF file.content_type = "code" THEN "code" ELSE @]

\* (file.content_preview or "")[:500].strip() is empty
PreviewBlank(preview) == preview \in {"", " "}

\* what the text-generation service does with one enrichment request:
\* "call_failed" (exception or a status other than 200), "unparseable" (no JSON
\* in the reply), "object" (a JSON object with topics, summary, document_type)
\* or "non_object" (valid JSON that is a non-empty list, a number or a string)
EnrichOutcomes == {"call_failed", "unparseable", "object", "non_object"}

\* whether _llm_analyze posts a request for the file
Enrichable(llm_available, file) ==
    llm_available /\ file.content_preview # "" /\ ~PreviewBlank(file.content_preview)

\* _llm_analyze: "none" for None, "dict" for a parsed object, "other" for any
\* other truthy JSON value
_llm_analyze(llm_available, file, outcome) ==
    IF ~Enrichable(llm_available, file) THEN "none"
    ELSE IF outcome = "object" THEN "dict"
    ELSE IF outcome = "non_object" THEN "other"
    ELSE "none"

\* the dict the service returned when it returned one
LLMTopics == <<"topic">>

\* the record appended for one file when llm_result.get does not raise
TextRecord(llm_available, file, outcome) ==
    IF llm_available /\ file.content_preview # ""
          /\ _llm_analyze(llm_available, file, outcome) = "dict"
    THEN [HeuristicRecord(file) EXCEPT !.topics = LLMTopics, !.summary = "summary",
                                       !.document_type = "notes"]
    ELSE HeuristicRecord(file)

\* llm_result.get(...) on a value that is not a dict raises AttributeError,
\* which nothing in analyze_text catches
TextRaises(llm_available, file_list, outcomes) ==
    \E i \in DOMAIN file_list :
        /\ llm_available /\ file_list[i].content_preview # ""
        /\ _llm_analyze(llm_available, file_list[i], outcomes[i]) = "other"

\* the requests posted before the loop ends or raises
TextCalls(llm_available, file_list, outcomes) ==
    LET stop == IF TextRaises(llm_available, file_list, outcomes)
                THEN CHOOSE i \in DOMAIN file_list :
                        /\ _llm_analyze(llm_available, file_list[i], outcomes[i]) = "other"
                        /\ \A k \in 1..(i - 1) :
                              _llm_analyze(llm_available, file_list[k], outcomes[k]) # "other"
                ELSE Len(file_list)
        reached == SubSeq(file_list, 1, stop)
        posted == SelectSeq(reached, LAMBDA f : Enrichable(llm_available, f))
    IN  [k \in DOMAIN posted |-> posted[k].name]

\* analyze_text; llm_available is the answer of _check_llm_available and
\* outcomes[i] what the service does with the request for file i
analyze_text(llm_available, outcomes) ==
    IF text_files = <<>>
    THEN /\ text_analysis' = <<>>
         /\ pc' = "text_analyzed"
         /\ UNCHANGED <<warnings, llm_calls>>
    ELSE /\ llm_calls' = llm_calls \o TextCalls(llm_available, text_files, outcomes)
         /\ IF TextRaises(llm_available, text_files, outcomes)
            THEN /\ pc' = "crashed"
                 /\ UNCHANGED <<text_analysis, warnings>>
            ELSE /\ text_analysis' = [i \in DOMAIN text_files |->
                                        TextRecord(llm_available, text_files[i], outcomes[i])]
                 /\ warnings' = Append(warnings, IF llm_available THEN "analyzed_text_llm"
                                                 ELSE "analyzed_text_heuristic")
                 /\ pc' = "text_analyzed"

----------------------------------------------------------------------------
(* The analysis graph of v0.1/graph/main_graph.py: input_validator.py,        *)
(* file_scanner.py, metadata_extractor.py, analyze_image.py, analyze_other.py *)
(* and aggregate_results.py.  An input path is [kind, listing]: kind is       *)
(* "missing", "denied", "file" or "dir", listing the files found there.       *)

PathMissing == [kind |-> "missing", listing |-> <<>>]

PathDenied == [kind |-> "denied", listing |-> <<>>]

PathFile(file) == [kind |-> "file", listing |-> <<file>>]

PathDir(listing) == [kind |-> "dir", listing |-> listing]

RECURSIVE PathErrors(_)
\* the loop of validate_input: one error per path that is missing or denied
PathErrors(paths) ==
    IF paths = <<>> THEN <<>>
    ELSE (IF Head(paths).kind = "missing" THEN <<"path_does_not_exist">>
          ELSE IF Head(paths).kind = "denied" THEN <<"permission_denied">>
          ELSE <<>>) \o PathErrors(Tail(paths))

\* validate_input
validate_input ==
    IF input_paths = <<>>
    THEN errors' = Append(errors, "no_input_paths")
    ELSE LET checked == errors \o PathErrors(input_paths)
             valid_paths == SelectSeq(input_paths, LAMBDA q : q.kind \in {"file", "dir"})
         IN  errors' = IF valid_paths = <<>> /\ checked = <<>>
                       THEN Append(checked, "no_valid_input_paths")
                       ELSE checked

\* what the file system does while directories are listed: "ok",
\* "dir_denied" (iterdir raises inside _scan_directory: a warning, no file)
\* or "dir_raises" (the exception reaches scan_files: an error)
ScanOutcomes == {"ok", "dir_denied", "dir_raises"}

RECURSIVE Scanned(_, _)
\* all_file_paths: every input path is walked, valid or not
Scanned(paths, scan) ==
    IF paths = <<>> THEN <<>>
    ELSE (IF Head(paths).kind = "file" THEN Head(paths).listing
          ELSE IF Head(paths).kind = "dir" /\ scan = "ok" THEN Head(paths).listing
          ELSE <<>>) \o Scanned(Tail(paths), scan)

DirCount(paths) == Cardinality({i \in DOMAIN paths : paths[i].kind = "dir"})

\* a sequence of n copies of x
Repeat(x, n) == [i \in 1..n |-> x]

\* scan_files
scan_files(scan) ==
    LET found == Scanned(input_paths, scan)
        scan_errors == errors \o (IF scan = "dir_raises"
                                  THEN Repeat("error_scanning_directory", DirCount(input_paths))
                                  ELSE <<>>)
        scan_warnings == warnings \o (IF scan = "dir_denied"
                                      THEN Repeat("permission_denied", DirCount(input_paths))
                                      ELSE <<>>)
    IN  /\ file_paths' = found
        /\ errors' = scan_errors
        /\ warnings' = IF found = <<>> /\ scan_errors = <<>>
                       THEN Append(scan_warnings, "no_files_found")
                       ELSE scan_warnings

\* extract_metadata; failing are the positions whose _extract_file_metadata raises
extract_metadata(failing) ==
    LET extracted == Pick(file_paths, DOMAIN file_paths \ failing)
    IN  /\ files' = extracted
        /\ warnings' = warnings \o Repeat("cannot_extract_metadata", Cardinality(failing))
        /\ errors' = IF extracted = <<>> /\ errors = <<>>
                     THEN Append(errors, "no_metadata")
                     ELSE errors

\* answers of the vision provider's probe: is_available() true, false, or the
\* constructor raising
VisionProbes == {"available", "unavailable", "init_error"}

\* ImageAnalysis for one image (the fields the later stages read)
ImageRecord(file) == [file_name |-> file.name, scene_type |-> "beach"]

\* the analysis that goes through the images although the probe failed
analyze_images_WithoutShortCircuit(probe, failed) ==
    LET analysed == Pick(image_files, DOMAIN image_files \ failed)
        results == [i \in DOMAIN analysed |-> ImageRecord(analysed[i])]
        noted == warnings \o Repeat("failed_to_analyze_image", Cardinality(failed))
    IN  IF image_files = <<>>
        THEN /\ image_analysis' = <<>>
             /\ UNCHANGED <<warnings, errors, vision_calls>>
        ELSE /\ image_analysis' = results
             /\ vision_calls' = vision_calls \o [i \in DOMAIN image_files |-> image_files[i].name]
             /\ warnings' = IF results # <<>> THEN Append(noted, "analyzed_images") ELSE noted
             /\ UNCHANGED errors

\* analyze_images; failed are the positions whose vision call (or EXIF read) raises
analyze_images(probe, failed) ==
    LET analysed == Pick(image_files, DOMAIN image_files \ failed)
        results == [i \in DOMAIN analysed |-> ImageRecord(analysed[i])]
        noted == warnings \o Repeat("failed_to_analyze_image", Cardinality(failed))
    IN  IF image_files = <<>>
        THEN /\ image_analysis' = <<>>
             /\ UNCHANGED <<warnings, errors, vision_calls>>
        ELSE IF probe = "unavailable"
        THEN /\ image_analysis' = <<>>
             /\ warnings' = Append(warnings, "vision_model_not_available")
             /\ UNCHANGED <<errors, vision_calls>>
        ELSE IF probe = "init_error"
        THEN /\ image_analysis' = <<>>
             /\ warnings' = Append(warnings, "vision_provider_not_initialized")
             /\ UNCHANGED <<errors, vision_calls>>
        ELSE /\ image_analysis' = results
             /\ vision_calls' = vision_calls \o [i \in DOMAIN image_files |-> image_files[i].name]
             /\ warnings' = IF results # <<>> THEN Append(noted, "analyzed_images") ELSE noted
             /\ UNCHANGED errors

\* analyze_other (sizes and detailed types left out)
analyze_other ==
    LET all_other == document_files \o other_files
        group_size(dir) == Cardinality({i \in DOMAIN all_other :
                                           all_other[i].parent_directory = dir})
    IN  /\ document_analysis' =
              [i \in DOMAIN all_other |->
                  [file_path |-> all_other[i].path,
                   file_name |-> all_other[i].name,
                   content_type |-> all_other[i].content_type,
                   extension |-> all_other[i].extension,
                   parent_directory |-> all_other[i].parent_directory,
                   directory_group_size |-> group_size(all_other[i].parent_directory)]]
        /\ warnings' = IF all_other # <<>> THEN Append(warnings, "processed_other")
                       ELSE warnings

\* the order of the keys of counts, which max() goes through
DominantOrder == <<"images", "text", "documents", "other">>

\* _determine_dominant_type
_determine_dominant_type(num_images, num_text, num_documents, num_other) ==
    LET counts == [k \in Range(DominantOrder) |->
                      IF k = "images" THEN num_images
                      ELSE IF k = "text" THEN num_text
                      ELSE IF k = "documents" THEN num_documents
                      ELSE num_other]
        total == num_images + num_text + num_documents + num_other
        first_max == CHOOSE i \in DOMAIN DominantOrder :
                        /\ \A k \in DOMAIN DominantOrder :
                              counts[DominantOrder[k]] <= counts[DominantOrder[i]]
                        /\ \A k \in 1..(i - 1) :
                              counts[DominantOrder[k]] < counts[DominantOrder[i]]
        max_type == DominantOrder[first_max]
    IN  IF total = 0 THEN "none"
        ELSE IF 2 * counts[max_type] > total THEN max_type
        ELSE "mixed"

\* aggregate_results (pattern extraction left out); <<record>> once it has run
aggregate_results ==
    /\ aggregated_analysis' =
          <<[total_files |-> Len(files),
             total_images |-> Len(image_analysis),
             total_text |-> Len(text_analysis),
             total_documents |-> Len(document_analysis),
             total_other |-> Len(other_files),
             dominant_type |-> _determine_dominant_type(
                                  Len(image_analysis), Len(text_analysis),
                                  Len(document_analysis), Len(other_files))]>>
    /\ warnings' = Append(warnings, "aggregated_summary")

----------------------------------------------------------------------------
(* The graph as a state machine: every edge is unconditional *)

\* what no node before analyze_with_llm writes
outsideGraph == <<genVars, preferences, suggestions, selected_suggestion, user_cancelled,
                  dry_run, use_copy, execution_result, fs, dirs, exec, now, confirm_asked,
                  exit_code, storeVars>>

MaxInputPaths == 2

InputPathChoices ==
    {PathMissing, PathDenied, PathFile(File_a_jpg), PathDir(<<>>),
     PathDir(<<File_b_py, File_d_xyz>>), PathDir(<<File_a_jpg, File_n_txt>>),
     PathDir(<<File_c_pdf>>)}

\* create_initial_state(input_paths=...), then app.invoke(initial_state)
InitialAccumulator ==
    /\ input_paths \in SeqsUpTo(InputPathChoices, MaxInputPaths)
    /\ files = <<>>
    /\ raw_response = Reply(<<>>)
    /\ data = raw_response
    /\ response = NoResponse
    /\ preferences = _default_preferences
    /\ suggestions = NoResponse
    /\ errors = <<>>
    /\ warnings = <<>>
    /\ image_analysis = <<>>
    /\ selected_suggestion = <<>>
    /\ user_cancelled = FALSE
    /\ dry_run = FALSE
    /\ use_copy = FALSE
    /\ execution_result = NoResult
    /\ fs = EmptyFS
    /\ dirs = {}
    /\ exec = NoExec
    /\ now = 1
    /\ confirm_asked = FALSE
    /\ exit_code = <<>>
    /\ file_paths = <<>>
    /\ image_files = <<>>
    /\ text_files = <<>>
    /\ document_files = <<>>
    /\ other_files = <<>>
    /\ text_analysis = <<>>
    /\ document_analysis = <<>>
    /\ aggregated_analysis = <<>>
    /\ stages = <<>>
    /\ vision_calls = <<>>
    /\ llm_calls = <<>>
    /\ unset = InitiallyNone
    /\ StoreIdle

\* app.invoke(initial_state): the graph is entered at validate_input
InitPipe ==
    /\ pc = "start"
    /\ InitialAccumulator

\* graph node validate_input
ValidateInput ==
    /\ pc = "start"
    /\ validate_input
    /\ stages' = Append(stages, Stage("validate_input", ""))
    /\ pc' = "validated"
    /\ UNCHANGED <<outsideGraph, files, warnings, image_analysis, input_paths, file_paths,
                   image_files, text_files, document_files, other_files, text_analysis,
                   document_analysis, aggregated_analysis, vision_calls, llm_calls, unset>>

\* graph node scan_files
ScanFiles ==
    /\ pc = "validated"
    /\ \E scan \in ScanOutcomes :
          /\ scan # "ok" => DirCount(input_paths) > 0
          /\ scan_files(scan)
    /\ stages' = Append(stages, Stage("scan_files", ""))
    /\ unset' = unset \ {"file_paths"}
    /\ pc' = "scanned"
    /\ UNCHANGED <<outsideGraph, files, image_analysis, input_paths,
                   image_files, text_files, document_files, other_files, text_analysis,
                   document_analysis, aggregated_analysis, vision_calls, llm_calls>>

\* graph node extract_metadata
ExtractMetadata ==
    /\ pc = "scanned"
    /\ stages' = Append(stages, Stage("extract_metadata", ""))
    /\ IF "file_paths" \in unset
       THEN \* "for file_path_str in file_paths" on None: TypeError
            /\ pc' = "crashed"
            /\ UNCHANGED <<files, ledgerVars>>
       ELSE /\ \E failing \in SUBSET DOMAIN file_paths : extract_metadata(failing)
            /\ pc' = "extracted"
    /\ UNCHANGED unset
    /\ UNCHANGED <<outsideGraph, image_analysis, input_paths, file_paths,
                   image_files, text_files, document_files, other_files, text_analysis,
                   document_analysis, aggregated_analysis, vision_calls, llm_calls>>

\* graph node analyze_images
AnalyzeImages ==
    /\ pc = "classified"
    /\ \E probe \in VisionProbes, failed \in SUBSET DOMAIN image_files :
          /\ analyze_images(probe, failed)
          /\ stages' = Append(stages, Stage("analyze_images",
                                            IF image_files = <<>> THEN "" ELSE probe))
    /\ unset' = unset \ {"image_analysis"}
    /\ pc' = "images_analyzed"
    /\ UNCHANGED <<outsideGraph, files, input_paths, file_paths,
                   image_files, text_files, document_files, other_files, text_analysis,
                   document_analysis, aggregated_analysis, llm_calls>>

\* graph node analyze_text
AnalyzeText ==
    /\ pc = "images_analyzed"
    /\ \E llm_available \in BOOLEAN, outcomes \in [DOMAIN text_files -> EnrichOutcomes] :
          /\ analyze_text(llm_available, outcomes)
          /\ stages' = Append(stages, Stage("analyze_text",
                                 IF text_files = <<>> THEN ""
                                 ELSE IF llm_available THEN "available" ELSE "unavailable"))
    /\ unset' = IF pc' = "crashed" THEN unset ELSE unset \ {"text_analysis"}
    /\ UNCHANGED <<outsideGraph, files, errors, image_analysis, input_paths, file_paths,
                   image_files, text_files, document_files, other_files,
                   document_analysis, aggregated_analysis, vision_calls>>

\* graph node analyze_other
AnalyzeOther ==
    /\ pc = "text_analyzed"
    /\ stages' = Append(stages, Stage("analyze_other", ""))
    /\ IF "document_files" \in unset \/ "other_files" \in unset
       THEN \* "document_files + other_files" on None: TypeError
            /\ pc' = "crashed"
            /\ UNCHANGED <<document_analysis, warnings, unset>>
       ELSE /\ analyze_other
            /\ unset' = unset \ {"document_analysis"}
            /\ pc' = "others_analyzed"
    /\ UNCHANGED <<outsideGraph, files, errors, image_analysis, input_paths, file_paths,
                   image_files, text_files, document_files, other_files, text_analysis,
                   aggregated_analysis, vision_calls, llm_calls>>

\* graph node aggregate_results
AggregateResults ==
    /\ pc = "others_analyzed"
    /\ aggregate_results
    /\ stages' = Append(stages, Stage("aggregate_results", ""))
    /\ unset' = unset \ {"aggregated_analysis"}
    /\ pc' = "aggregated"
    /\ UNCHANGED <<outsideGraph, files, errors, image_analysis, input_paths, file_paths,
                   image_files, text_files, document_files, other_files, text_analysis,
                   document_analysis, vision_calls, llm_calls>>

\* main(): app.invoke raised; the error is printed and sys.exit(1) called
MainGraphError ==
    /\ pc = "crashed"
    /\ pc' = "exit"
    /\ exit_code' = <<1>>
    /\ UNCHANGED <<files, genVars, preferences, suggestions, ledgerVars, actVars,
                   pipeVars, storeVars>>

NextPipe ==
    \/ ValidateInput
    \/ ScanFiles
    \/ ExtractMetadata
    \/ ClassifyFiles
    \/ AnalyzeImages
    \/ AnalyzeText
    \/ AnalyzeOther
    \/ AggregateResults
    \/ MainGraphError

SpecPipe == InitPipe /\ [][NextPipe]_vars

\* a fatal condition is on record: no input path, no valid input path, or no
\* file metadata extracted
FatalRecorded ==
    \/ \E i \in DOMAIN errors :
          errors[i] \in {"no_input_paths", "no_valid_input_paths", "no_metadata"}
    \/ /\ pc # "start"
       /\ input_paths # <<>>
       /\ \A i \in DOMAIN input_paths : input_paths[i].kind \in {"missing", "denied"}

\* the positions at which a node of the graph is still due
NodeDue ==
    pc \in {"start", "validated", "scanned", "extracted", "classified", "images_analyzed",
            "text_analyzed", "others_analyzed"}

\* C11: once a stage has recorded a fatal error no later node of the graph
\* runs, and as long as none is recorded (warnings or not) the next node runs.
C11_HaltsOnFatal ==
    [][/\ FatalRecorded => stages' = stages
       /\ (~FatalRecorded /\ NodeDue) => Len(stages') = Len(stages) + 1]_vars

\* the vision probe logged by analyze_images failed ("" when it has not run
\* or had no image to look at)
VisionProbe ==
    LET ran == SelectSeq(stages, LAMBDA st : st.node = "analyze_images")
    IN  IF ran = <<>> THEN "" ELSE ran[1].probe

VisionDown == VisionProbe \in {"unavailable", "init_error"}

\* the file names of a list of files or of analysis records
FileNames(list) == [i \in DOMAIN list |-> list[i].file_name]

NamesOf(file_list) == [i \in DOMAIN file_list |-> file_list[i].name]

\* C13: when the vision probe fails and there are image files, analyze_images
\* posts no per-file vision request, leaves image_analysis empty, appends
\* exactly one warning and no error and touches nothing the text and other
\* analyzers read; these then run and give one record per text file and per
\* document or other file, as they do with a reachable vision service.
C13_ProbeFailureShortCircuits ==
    [][/\ (pc = "classified" /\ pc' = "images_analyzed" /\ image_files # <<>>
              /\ VisionDown') =>
             /\ vision_calls' = vision_calls
             /\ image_analysis' = <<>>
             /\ Len(warnings') = Len(warnings) + 1
             /\ SubSeq(warnings', 1, Len(warnings)) = warnings
             /\ errors' = errors
             /\ UNCHANGED <<text_files, document_files, other_files, text_analysis,
                            document_analysis, llm_calls>>
       /\ (VisionDown /\ pc = "images_analyzed") =>
             /\ Len(stages') = Len(stages) + 1
             /\ pc' = "text_analyzed" => FileNames(text_analysis') = NamesOf(text_files)
             /\ vision_calls' = vision_calls /\ image_analysis' = <<>>
       /\ (VisionDown /\ pc = "text_analyzed") =>
             /\ pc' = "others_analyzed"
             /\ FileNames(document_analysis') = NamesOf(document_files \o other_files)
             /\ vision_calls' = vision_calls /\ image_analysis' = <<>>]_vars

\* the probe failed on a run with images, text and other files, and both later
\* analyzers have delivered their records
C13_Witness ==
    /\ pc = "others_analyzed"
    /\ VisionProbe = "unavailable"
    /\ image_files # <<>> /\ image_analysis = <<>> /\ vision_calls = <<>>
    /\ text_analysis # <<>>
    /\ document_analysis # <<>>

\* the probe answer logged by analyze_text
TextProbe(log) ==
    LET ran == SelectSeq(log, LAMBDA st : st.node = "analyze_text")
    IN  IF ran = <<>> THEN "" ELSE ran[1].probe

\* the record of a file whose enrichment succeeded
EnrichedRecord(file) == TextRecord(TRUE, file, "object")

\* C14: whatever the probe and the enrichment requests give, analyze_text
\* returns one record per text file in input order, posts a request only for
\* files with a non-empty preview after a successful probe, and every record is
\* either the heuristic one or the enriched one of its file.
C14_OneRecordPerFile ==
    [][pc = "images_analyzed" =>
          /\ pc' = "text_analyzed"
          /\ FileNames(text_analysis') = NamesOf(text_files)
          /\ \A c \in (Len(llm_calls) + 1)..Len(llm_calls') :
                /\ TextProbe(stages') = "available"
                /\ \E k \in DOMAIN text_files :
                      /\ text_files[k].name = llm_calls'[c]
                      /\ ~PreviewBlank(text_files[k].content_preview)
          /\ \A k \in DOMAIN text_files :
                text_analysis'[k] \in {HeuristicRecord(text_files[k]),
                                       EnrichedRecord(text_files[k])}]_vars

\* how many input files classify_files put into a category
ClassifiedAs(category) ==
    IF category = "images" THEN Len(image_files)
    ELSE IF category = "text" THEN Len(text_files)
    ELSE IF category = "documents" THEN Len(document_files)
    ELSE Len(other_files)

\* C17: after aggregate_results on a non-empty input, dominant_type names a
\* category exactly when more than half of the input files were classified
\* into it, and is "mixed" when no category has such a majority, whatever the
\* analyzers returned.
C17_DominantIsMajority ==
    (pc = "aggregated" /\ files # <<>>) =>
        LET dominant_type == aggregated_analysis[1].dominant_type
            majority(c) == 2 * ClassifiedAs(c) > Len(files)
        IN  /\ \A c \in Range(DominantOrder) : dominant_type = c <=> majority(c)
            /\ (\A c \in Range(DominantOrder) : ~majority(c)) <=> dominant_type = "mixed"

----------------------------------------------------------------------------
(* The preference store of learning/preference_store.py as processes use it. *)
(* runs[r] is one process: pc ("init", "loaded", "saving", "done"), store    *)
(* (self.preferences), read (what _load found) and calls (the history        *)
(* entries of the record_choice calls made on the store, in call order).     *)

\* the fields no method of PreferenceStore writes
outsideStore == <<pc, files, genVars, preferences, suggestions, ledgerVars, actVars,
                  exit_code, pipeVars>>

\* a run of the program before it has touched the store
QuietRun ==
    /\ files = <<>>
    /\ raw_response = Reply(<<>>)
    /\ data = raw_response
    /\ response = NoResponse
    /\ preferences = _default_preferences
    /\ suggestions = NoResponse
    /\ errors = <<>>
    /\ warnings = <<>>
    /\ image_analysis = <<>>
    /\ selected_suggestion = <<>>
    /\ user_cancelled = FALSE
    /\ dry_run = FALSE
    /\ use_copy = FALSE
    /\ execution_result = NoResult
    /\ fs = EmptyFS
    /\ dirs = {}
    /\ exec = NoExec
    /\ now = 1
    /\ confirm_asked = FALSE
    /\ exit_code = <<>>
    /\ PipeIdle

\* strategy arguments: the three known tags and one the score table lacks
ChoiceStrategies == Strategies \cup {"by_date"}

\* the history entry record_choice appends
HistoryEntry(strategy, suggestion_index, files_organized, was_modified) ==
    [strategy |-> strategy, suggestion_index |-> suggestion_index,
     files_organized |-> files_organized, was_modified |-> was_modified]

\* PreferenceStore(path) on a path without a file
FreshStore == [pc |-> "loaded", store |-> _default_preferences, read |-> "absent",
               calls |-> <<>>]

\* the file after a save that no other process interleaves with
Saved(prefs, r) == [state |-> "written", doc |-> prefs, extra |-> 0, writer |-> r]

MaxCalls == 102

VariedCalls == 2

TotalOffered == 3

\* one store, loaded from a missing file
InitStore ==
    /\ pc = "store"
    /\ QuietRun
    /\ disk = NoFile
    /\ runs = <<FreshStore>>

\* store.record_choice(...), its save included; the n-th call reports n files,
\* the first VariedCalls calls pick strategy and was_modified freely
RecordChoice ==
    /\ pc = "store"
    /\ Len(runs[1].calls) < MaxCalls
    /\ LET n == Len(runs[1].calls) + 1
       IN  \E strategy \in ChoiceStrategies, was_modified \in BOOLEAN :
              /\ n > VariedCalls =>
                    /\ strategy = StrategyOrder[(n % Len(StrategyOrder)) + 1]
                    /\ was_modified = FALSE
              /\ LET after == record_choice(runs[1].store, strategy, 0, TotalOffered,
                                            n, was_modified)
                 IN  /\ runs' = [runs EXCEPT
                            ![1].store = after,
                            ![1].calls = Append(@, HistoryEntry(strategy, 0, n,
                                                                was_modified))]
                     /\ disk' = Saved(after, 1)
    /\ UNCHANGED outsideStore

NextStore == RecordChoice

SpecStore == InitStore /\ [][NextStore]_vars

\* C18: after any sequence of record_choice calls the history holds at most
\* 100 entries, namely the most recent calls in call order (the oldest ones
\* are dropped), in the store and in the file it saved.
C18_HistoryBounded ==
    \A r \in DOMAIN runs :
        LET history == runs[r].store.history
            calls == runs[r].calls
        IN  /\ Len(history) <= MaxHistory
            /\ Len(history) = IF Len(calls) <= MaxHistory THEN Len(calls) ELSE MaxHistory
            /\ \A i \in DOMAIN history :
                  history[i] = calls[Len(calls) - Len(history) + i]
            /\ calls # <<>> => disk.state = "written" /\ disk.doc.history = history

\* more calls than the bound were made and the oldest entry left is the one
\* of call number (calls - 99)
C18_Witness ==
    /\ pc = "store"
    /\ Len(runs[1].calls) > MaxHistory
    /\ Len(runs[1].store.history) = MaxHistory
    /\ runs[1].store.history[1].files_organized = Len(runs[1].calls) - MaxHistory + 1

----------------------------------------------------------------------------
(* Two processes on one preference file.  save() is open(path, "w"), which   *)
(* empties the file, followed by json.dump and close, which write the        *)
(* document from offset 0; another process can run between the two.  What a  *)
(* write leaves in the file depends on the lengths of the documents, so the  *)
(* bytes json.dump(indent=2) produces are counted.                           *)

RECURSIVE Digits(_)
\* characters of a natural number
Digits(n) == IF n < 10 THEN 1 ELSE 1 + Digits(n \div 10)

\* characters of a strategy tag
StrategyChars(strategy) ==
    IF strategy = "by_activity" THEN 11
    ELSE IF strategy = "by_date" THEN 7
    ELSE 10

\* bytes of a document with zero scores, zero stats, no folder names and no
\* history, the seven zeros not counted
BaseBytes == 378

\* bytes of the keys, punctuation, indentation and timestamp of a history entry
EntryBytes == 162

\* bytes of the punctuation and indentation of a folder name mapping
MappingBytes == 13

RECURSIVE HistoryBytes(_)
HistoryBytes(history) ==
    IF history = <<>> THEN 0
    ELSE LET entry == Head(history)
         IN  EntryBytes + StrategyChars(entry.strategy) + Digits(entry.suggestion_index)
                + Digits(entry.files_organized)
                + (IF entry.was_modified THEN 4 ELSE 5)
                + HistoryBytes(Tail(history))

RECURSIVE FolderBytes(_)
FolderBytes(folder_names) ==
    IF folder_names = {} THEN 0
    ELSE LET q == CHOOSE x \in folder_names : TRUE
         IN  MappingBytes + Len(q[1]) + Len(q[2]) + FolderBytes(folder_names \ {q})

\* len(json.dumps(prefs, indent=2))
DocBytes(prefs) ==
    BaseBytes
      + Digits(prefs.strategy_scores["by_content"])
      + Digits(prefs.strategy_scores["by_activity"])
      + Digits(prefs.strategy_scores["by_setting"])
      + Digits(prefs.stats.total_organizations)
      + Digits(prefs.stats.total_files_organized)
      + Digits(prefs.stats.suggestions_accepted)
      + Digits(prefs.stats.suggestions_modified)
      + (IF prefs.folder_names = {} THEN 0 ELSE 1 + FolderBytes(prefs.folder_names))
      + (IF prefs.history = <<>> THEN 0 ELSE 2 + HistoryBytes(prefs.history))

\* the length of the file
FileBytes(file) == IF file.state = "written" THEN DocBytes(file.doc) + file.extra ELSE 0

\* the file is one complete JSON document
Complete(file) == file.state = "written" /\ file.extra = 0

\* json.dump and close on a handle opened at offset 0: the document replaces
\* the first bytes of the file, what lies behind them stays
Written(file, prefs, r) ==
    [state |-> "written", doc |-> prefs,
     extra |-> IF FileBytes(file) > DocBytes(prefs)
               THEN FileBytes(file) - DocBytes(prefs) ELSE 0,
     writer |-> r]

\* open(path, "w")
Truncated(file) == [state |-> "empty", doc |-> _default_preferences, extra |-> 0,
                    writer |-> file.writer]

\* _load: what the file gives ("absent", "complete", "empty", "garbled")
ReadOf(file) ==
    IF file.state = "absent" THEN "absent"
    ELSE IF file.state = "empty" THEN "empty"
    ELSE IF file.extra = 0 THEN "complete"
    ELSE "garbled"

\* _load: json.load raises JSONDecodeError on an empty document and on one
\* with bytes behind it, and the defaults are returned
_load(file) == IF ReadOf(file) = "complete" THEN file.doc ELSE _default_preferences

RunIds == 1..2

OrganizedCounts == {2, 12}

\* a file left by an earlier run
PriorDoc == record_choice(_default_preferences, "by_content", 0, TotalOffered, 5, FALSE)

NewRun == [pc |-> "init", store |-> _default_preferences, read |-> "none", calls |-> <<>>]

InitRuns ==
    /\ pc = "runs"
    /\ QuietRun
    /\ disk \in {NoFile, Saved(PriorDoc, 0)}
    /\ runs = [r \in RunIds |-> NewRun]

\* store = PreferenceStore()
Load(r) ==
    /\ pc = "runs"
    /\ runs[r].pc = "init"
    /\ runs' = [runs EXCEPT ![r].pc = "loaded", ![r].store = _load(disk),
                            ![r].read = ReadOf(disk)]
    /\ UNCHANGED <<disk, outsideStore>>

\* store.record_choice(...) up to the open(self.path, "w") of its save()
BeginSave(r) ==
    /\ pc = "runs"
    /\ runs[r].pc = "loaded"
    /\ \E strategy \in ChoiceStrategies, files_organized \in OrganizedCounts,
          was_modified \in BOOLEAN :
          runs' = [runs EXCEPT
                      ![r].pc = "saving",
                      ![r].store = record_choice(@, strategy, 0, TotalOffered,
                                                 files_organized, was_modified),
                      ![r].calls = Append(@, HistoryEntry(strategy, 0, files_organized,
                                                          was_modified))]
    /\ disk' = Truncated(disk)
    /\ UNCHANGED outsideStore

\* the json.dump and the close that end save()
FinishSave(r) ==
    /\ pc = "runs"
    /\ runs[r].pc = "saving"
    /\ disk' = Written(disk, runs[r].store, r)
    /\ runs' = [runs EXCEPT ![r].pc = "done"]
    /\ UNCHANGED outsideStore

NextRuns ==
    \E r \in RunIds :
        \/ Load(r)
        \/ BeginSave(r)
        \/ FinishSave(r)

SpecRuns == InitRuns /\ [][NextRuns]_vars

\* C19: a save is atomic for concurrent loads: whatever a process loads is a
\* complete record (the previous or the new one) or no file at all, never an
\* empty or truncated document.
C19_AtomicSave ==
    \A r \in DOMAIN runs : runs[r].read \notin {"empty", "garbled"}

\* every run has loaded, recorded its choice and saved
AllSaved == pc = "runs" /\ \A r \in DOMAIN runs : runs[r].pc = "done"

\* C20: when two concurrent runs have loaded, recorded a choice and saved, the
\* file is the complete record of the run that saved last.
C20_LastWriteWins ==
    AllSaved => /\ Complete(disk)
                /\ disk.doc = runs[disk.writer].store

\* a final file that is one run's complete record and lacks the other run's
\* history entry
LostUpdate ==
    /\ AllSaved
    /\ Complete(disk)
    /\ \E r \in DOMAIN runs :
          \A i \in DOMAIN disk.doc.history : disk.doc.history[i] # runs[r].calls[1]

----------------------------------------------------------------------------
(* Claims on the failures of generation *)

\* the messages of the three kinds of failure
UnreachableMessages == {"provider_unavailable", "provider_not_available"}

ServiceErrorMessages == {"provider_api_error"}

UnparseableMessages == {"provider_parse_error"}

----------------------------------------------------------------------------
(* Claims on the fields of the accumulator *)

\* the fields each stage owns
OwnedByScan == <<file_paths>>

OwnedByExtract == <<files>>

OwnedByClassify == <<image_files, text_files, document_files, other_files>>

OwnedByAnalyzers == <<image_analysis, text_analysis, document_analysis>>

OwnedByAggregate == <<aggregated_analysis>>

OwnedByGenerate == <<suggestions>>

OwnedBySelect == <<selected_suggestion, user_cancelled>>

OwnedByExecute == <<execution_result>>

\* C22: apart from errors and warnings every field of the accumulator has one
\* writing stage: the selection stage leaves the fields of all other stages
\* unchanged, and so do the execution stage and the learning stage.
C22_SingleWriter ==
    [][/\ (ConfirmSelection \/ AutoConfirmFirst) =>
             UNCHANGED <<OwnedByScan, OwnedByExtract, OwnedByClassify, OwnedByAnalyzers,
                         OwnedByAggregate, OwnedByGenerate, OwnedByExecute>>
       /\ (ExecuteOrganization \/ DryRunOrganization \/ ExecuteOperation) =>
             UNCHANGED <<OwnedByScan, OwnedByExtract, OwnedByClassify, OwnedByAnalyzers,
                         OwnedByAggregate, OwnedByGenerate, OwnedBySelect>>
       /\ LearnFromChoice =>
             UNCHANGED <<OwnedByScan, OwnedByExtract, OwnedByClassify, OwnedByAnalyzers,
                         OwnedByAggregate, OwnedByGenerate, OwnedBySelect,
                         OwnedByExecute>>]_vars

----------------------------------------------------------------------------
(* A node of the graph called on the accumulator create_initial_state        *)
(* returns, whatever its place in the graph, and the nodes after it          *)

\* the positions of the graph a call can start from
LonePositions ==
    {"start", "validated", "scanned", "extracted", "classified", "images_analyzed",
     "text_analyzed", "others_analyzed"}

InitLone ==
    /\ pc \in LonePositions
    /\ InitialAccumulator

NextLone == NextPipe

SpecLone == InitLone /\ [][NextLone]_vars

\* C23: a stage whose upstream field still has its initial None completes
\* without raising and gives what it gives for an empty upstream result.
C23_ToleratesAbsent ==
    [][/\ (pc = "scanned" /\ "file_paths" \in unset) =>
             pc' = "extracted" /\ files' = <<>>
       /\ (pc = "classified" /\ "image_files" \in unset) =>
             pc' = "images_analyzed" /\ image_analysis' = <<>>
       /\ (pc = "images_analyzed" /\ "text_files" \in unset) =>
             pc' = "text_analyzed" /\ text_analysis' = <<>>
       /\ (pc = "text_analyzed" /\ {"document_files", "other_files"} \cap unset # {}) =>
             pc' = "others_analyzed" /\ document_analysis' = <<>>
       /\ (pc = "others_analyzed"
              /\ {"image_analysis", "text_analysis", "document_analysis"} \cap unset # {}) =>
             pc' = "aggregated" /\ aggregated_analysis' # <<>>]_vars

----------------------------------------------------------------------------
(* _build_operations on folder structures of up to three levels *)

MaxOpsFolders == 2

NameT == <<"T">>

\* third-level nodes, second-level nodes and top-level folders
DeepNodes == [name : {NameT}, files : {<<>>, <<"a">>, <<"b">>}]

SubNodes ==
    [name : {NameS}, files : {<<>>, <<"a">>, <<"b">>}]
    \cup [name : {NameS}, files : {<<>>, <<"a">>, <<"b">>},
          subfolders : {<<d>> : d \in DeepNodes}]

OpsFolders ==
    [name : {NameD}, files : {<<>>, <<"a">>, <<"b">>, <<"a", "x">>},
     subfolders : {<<>>} \cup {<<n>> : n \in SubNodes}]

OpsSuggestions ==
    [base_path : {BP_Organized}, confidence : {90},
     folders : SeqsUpTo(OpsFolders, MaxOpsFolders)]

\* a proposal is selected and the discovered files are known
InitOps ==
    /\ pc = "selected"
    /\ files \in {FilesNamed(names) : names \in FileLists}
    /\ \E sugg \in OpsSuggestions : selected_suggestion = <<sugg>>
    /\ raw_response = Reply(<<>>)
    /\ data = raw_response
    /\ response = NoResponse
    /\ preferences = _default_preferences
    /\ suggestions = NoResponse
    /\ errors = <<>>
    /\ warnings = <<>>
    /\ image_analysis = <<>>
    /\ user_cancelled = FALSE
    /\ dry_run = FALSE
    /\ use_copy = FALSE
    /\ execution_result = NoResult
    /\ fs = EmptyFS
    /\ dirs = {}
    /\ exec = NoExec
    /\ now = 1
    /\ confirm_asked = FALSE
    /\ exit_code = <<>>
    /\ PipeIdle
    /\ StoreIdle

\* execute_organization, lines 40-59: the lookup and the operation list
BuildOperations ==
    /\ pc = "selected"
    /\ pc' = "built"
    /\ exec' = [NoExec EXCEPT !.operations =
                   _build_operations(selected_suggestion[1].folders, file_lookup(files))]
    /\ UNCHANGED <<files, genVars, preferences, suggestions, ledgerVars, image_analysis,
                   selected_suggestion, user_cancelled, dry_run, use_copy,
                   execution_result, fs, dirs, now, confirm_asked, exit_code, pipeVars,
                   storeVars>>

NextOps == BuildOperations

SpecOps == InitOps /\ [][NextOps]_vars

RECURSIVE ListedIn(_, _)
\* every [dir, name] a node lists, at any depth, dir being the path of folder
\* names from the base path down
ListedIn(folder, above) ==
    LET dir == Append(above, folder.name)
    IN  [k \in DOMAIN folder.files |-> [dir |-> dir, name |-> folder.files[k]]]
          \o (IF "subfolders" \in DOMAIN folder
              THEN Flatten([i \in DOMAIN folder.subfolders |->
                              ListedIn(folder.subfolders[i], dir)])
              ELSE <<>>)

Listed(folders) == Flatten([j \in DOMAIN folders |-> ListedIn(folders[j], <<>>)])

\* C24: the operation list holds exactly one operation per file name listed
\* anywhere in the selected structure (at any depth) that the lookup knows,
\* from the looked-up source to <folder path>/<file name>, and nothing else.
C24_OperationPerListedName ==
    pc = "built" =>
        LET lookup == file_lookup(files)
            known == SelectSeq(Listed(selected_suggestion[1].folders),
                               LAMBDA e : e.name \in DOMAIN lookup)
            claimed == [k \in DOMAIN known |->
                          [source |-> lookup[known[k].name],
                           dest |-> [dir |-> known[k].dir, name |-> known[k].name,
                                     stamp |-> 0]]]
        IN  /\ Len(exec.operations) = Len(claimed)
            /\ \A op \in Range(claimed) \cup Range(exec.operations) :
                  Count(exec.operations, op) = Count(claimed, op)

\* the selected proposal holds every input file name exactly once and no other
CoverageHolds ==
    LET all_files == get_all_files(selected_suggestion[1].folders)
    IN  /\ Range(all_files) = Range(filenames)
        /\ \A n \in Range(all_files) : Count(all_files, n) = 1

\* C29: when the selected proposal satisfies the coverage invariant, every
\* discovered source path occurs exactly once as the source of an operation.
C29_EverySourceOnce ==
    (pc = "built" /\ CoverageHolds) =>
        \A i \in DOMAIN files :
            Cardinality({k \in DOMAIN exec.operations :
                            exec.operations[k].source = files[i].path}) = 1

----------------------------------------------------------------------------
(* Claims on the boost and on the strategy tags *)

\* the boost the claim gives a strategy: (N - r) * 0.05, and 0 for a strategy
\* without history, i.e. one whose score is still 0
ClaimedBoost(strategy, prefs) ==
    IF prefs.strategy_scores[strategy] = 0 THEN 0
    ELSE (Len(StrategyOrder) - PlaceOf(strategy, prefs)) * BoostStep

\* C25: every re-ranked proposal carries min(1.0, confidence + boost) with
\* boost = (N - r) * 0.05 for the place r of its strategy in the ranking, and
\* boost = 0 for a strategy that has no history.
C25_BoostByRank ==
    Reranked =>
        LET claimed == [i \in DOMAIN response.suggestions |->
                          <<response.suggestions[i].base_path,
                            Min(100, response.suggestions[i].confidence
                                       + ClaimedBoost(_detect_strategy(
                                             response.suggestions[i].base_path),
                                           preferences))>>]
            got == [i \in DOMAIN suggestions.suggestions |->
                          <<suggestions.suggestions[i].base_path,
                            suggestions.suggestions[i].confidence>>]
        IN  /\ Len(got) = Len(claimed)
            /\ \A x \in Range(claimed) \cup Range(got) : Count(got, x) = Count(claimed, x)

\* C27: learning records as suggestion_index the position of the selected
\* proposal in the offered list and adds (offered - position) to the score of
\* the detected strategy only, also when two offered proposals have equal base
\* paths.
C27_RecordsSelectedPosition ==
    [][(LearnFromChoice /\ ShouldLearn) =>
          LET selected == selected_suggestion[1]
              offered == suggestions.suggestions
              strategy == learning_detect_strategy(selected.base_path)
              entry == preferences'.history[Len(preferences'.history)]
          IN  \E p \in DOMAIN offered :
                 /\ offered[p] = selected
                 /\ entry.suggestion_index = p - 1
                 /\ preferences'.strategy_scores =
                       [preferences.strategy_scores EXCEPT
                           ![strategy] = @ + (Len(offered) - (p - 1))]]_vars

----------------------------------------------------------------------------
(* One run from a single proposal to the learned record, over base paths built
   from the words the two strategy detections look for *)

TagWords ==
    {<<"C", "o", "n", "t", "e", "n", "t">>,
     <<"T", "y", "p", "e">>,
     <<"A", "c", "t", "i", "v", "i", "t", "y">>,
     <<"E", "v", "e", "n", "t">>,
     <<"S", "e", "t", "t", "i", "n", "g">>,
     <<"L", "o", "c", "a", "t", "i", "o", "n">>,
     <<"D", "a", "t", "e">>}

WordBy == <<"B", "y", " ">>

WordAnd == <<" ", "a", "n", "d", " ">>

\* "By <word>" and "By <word> and <word>"
TagBasePaths ==
    {WordBy \o w : w \in TagWords}
        \cup {WordBy \o w1 \o WordAnd \o w2 : w1, w2 \in TagWords}

TagReplies ==
    {Reply(<<>>)}
        \cup {Reply(<<[base_path |-> base_path, confidence |-> 800, has_folders |-> TRUE,
                       folders |-> <<[name |-> NameD, files |-> <<"a">>,
                                      subfolders |-> <<>>]>>]>>) :
                 base_path \in TagBasePaths}

InitTags ==
    /\ pc = "suggested"
    /\ files = FilesNamed(<<"a", "b">>)
    /\ raw_response \in TagReplies
    /\ data = raw_response
    /\ response = SuggestionResponse(data)
    /\ preferences = _default_preferences
    /\ suggestions = Offered(response, preferences)
    /\ errors = <<>>
    /\ warnings = <<>>
    /\ image_analysis = ActAnalysis
    /\ selected_suggestion = <<>>
    /\ user_cancelled = FALSE
    /\ dry_run \in BOOLEAN
    /\ use_copy \in BOOLEAN
    /\ execution_result = NoResult
    /\ fs = [q \in {files[i].path : i \in DOMAIN files} |-> q]
    /\ dirs = {}
    /\ exec = NoExec
    /\ now = 1
    /\ confirm_asked = FALSE
    /\ exit_code = <<>>
    /\ PipeIdle
    /\ StoreIdle

NextTags == NextAct

SpecTags == InitTags /\ [][NextTags]_vars

\* C26: the learning stage detects, for every base path, the tag that
\* re-ranking detects for it, so the score it increments is the score under
\* which the chosen proposal is ranked in later runs.
C26_SameTagBothStages ==
    [][(LearnFromChoice /\ ShouldLearn) =>
          LET ranked_as == _detect_strategy(selected_suggestion[1].base_path)
              entry == preferences'.history[Len(preferences'.history)]
          IN  /\ entry.strategy = ranked_as
              /\ preferences'.strategy_scores[ranked_as]
                    > preferences.strategy_scores[ranked_as]]_vars

----------------------------------------------------------------------------
(* Decoding the reply text of the generation service *)

\* the body of a reply text opens with '{' and ends with '}': <<document>> when
\* it is a JSON document, <<>> when it is not (cut short, single quotes, ...)
BrokenObject == <<>>

\* what may surround the object in the reply text: nothing, white space,
\* prose, a second pair of braces
TextEdges == {<<>>, <<" ">>, <<"O", "K", ":", " ">>, <<"{", "}">>}

ReplyTexts ==
    [prefix : TextEdges,
     body : {<<[Reply(ss) EXCEPT !.analysis_summary = summary]>> :
                ss \in SeqsUpTo(RankSuggestions, 1), summary \in Summaries}
                \cup {BrokenObject},
     suffix : TextEdges]

\* str.strip() on the reply text
StripText(text) ==
    [text EXCEPT !.prefix = LStrip(@), !.suffix = RStrip(@)]

\* json.loads: <<document>> when the whole text is one JSON document, <<>> for
\* JSONDecodeError
json_loads(text) ==
    IF text.prefix = <<>> /\ text.suffix = <<>> THEN text.body ELSE <<>>

\* raw[raw.find("{") : raw.rfind("}") + 1]
BraceSubstring(text) ==
    LET opens == {i \in DOMAIN text.prefix : text.prefix[i] = "{"}
        closes == {i \in DOMAIN text.suffix : text.suffix[i] = "}"}
    IN  [text EXCEPT
            !.prefix = IF opens = {} THEN <<>>
                       ELSE SubSeq(@, CHOOSE i \in opens : \A k \in opens : i <= k, Len(@)),
            !.suffix = IF closes = {} THEN <<>>
                       ELSE SubSeq(@, 1, CHOOSE i \in closes : \A k \in closes : i >= k)]

\* OllamaProvider._parse_json_response up to the decoded dict: strip, json.loads,
\* and an exception (<<>>) on JSONDecodeError
_parse_json_response(text) == json_loads(StripText(text))

InitParse ==
    /\ pc = "aggregated"
    /\ files = FilesNamed(<<"a">>)
    /\ raw_response \in ReplyTexts
    /\ data = Reply(<<>>)
    /\ response = NoResponse
    /\ preferences = _default_preferences
    /\ suggestions = NoResponse
    /\ errors = <<>>
    /\ warnings = <<>>
    /\ ActIdle

\* analyze_with_llm when the service answers with the text raw_response
AnalyzeReplyText ==
    /\ pc = "aggregated"
    /\ pc' = "suggested"
    /\ UNCHANGED <<files, raw_response, preferences>>
    /\ UNCHANGED <<actVars, exit_code, pipeVars, storeVars>>
    /\ LET decoded == _parse_json_response(raw_response)
       IN  IF decoded = <<>>
           THEN /\ errors' = Append(errors, FailureMessage("garbled"))
                /\ warnings' = Append(warnings, "could_not_apply_preferences")
                /\ UNCHANGED <<data, response, suggestions>>
           ELSE /\ data' = RepairedData(decoded[1], filenames)
                /\ response' = SuggestionResponse(data')
                /\ errors' = IF response'.ok THEN errors
                             ELSE Append(errors, FailureMessage("invalid"))
                /\ IF ReRankRaises(response', preferences)
                   THEN /\ suggestions' = IF response'.ok THEN response' ELSE suggestions
                        /\ warnings' = Append(warnings, "could_not_apply_preferences")
                   ELSE /\ suggestions' = apply_preferences(response', preferences)
                        /\ UNCHANGED warnings

NextParse == AnalyzeReplyText

SpecParse == InitParse /\ [][NextParse]_vars

\* C28: a reply that is not valid JSON as a whole is decoded again from its
\* first '{' to its last '}', and is accepted when that substring parses; the
\* step fails with a parse error only when that fails too.
C28_RetriesOnBraceSubstring ==
    [][AnalyzeReplyText =>
          LET whole == json_loads(StripText(raw_response))
              inner == json_loads(BraceSubstring(raw_response))
          IN  (whole = <<>> /\ inner # <<>>) =>
                  /\ data' = RepairedData(inner[1], filenames)
                  /\ response' = SuggestionResponse(data')
                  /\ response'.ok => errors' = errors]_vars

----------------------------------------------------------------------------
(* What re-ranking leaves alone *)

PermSuggestions ==
    [base_path : RankBasePaths, confidence : {304, 996}, has_folders : {TRUE},
     folders : {<<f>> : f \in RankFolders}]

\* replies with and without a summary
PermReplies ==
    {[Reply(ss) EXCEPT !.analysis_summary = summary] :
        ss \in SeqsUpTo(PermSuggestions, MaxSuggestions), summary \in Summaries}

\* the default record, and records after one and after two learned choices
PermPreferences ==
    {_default_preferences,
     [record_choice(_default_preferences, "by_setting", 0, 2, 2, FALSE)
        EXCEPT !.folder_names = {<<"home-indoor", NameCasa>>}],
     record_choice(record_choice(_default_preferences, "by_activity", 0, 2, 2, FALSE),
                   "by_setting", 1, 2, 2, FALSE)}

\* two discovered files, of which the replies list the first: the repair pass
\* adds a second folder to every proposal
InitPerm ==
    /\ pc = "aggregated"
    /\ files = FilesNamed(<<"a", "b">>)
    /\ raw_response = Reply(<<>>)
    /\ data = raw_response
    /\ response = NoResponse
    /\ preferences \in PermPreferences
    /\ suggestions = NoResponse
    /\ errors = <<>>
    /\ warnings = <<>>
    /\ ActIdle

AnalyzeSummarised == analyze_with_llm(PermReplies)

NextPerm == AnalyzeSummarised

SpecPerm == InitPerm /\ [][NextPerm]_vars

\* a proposal without what re-ranking may change (folder names, confidence)
Shape(sugg) ==
    [base_path |-> sugg.base_path,
     folders |-> [j \in DOMAIN sugg.folders |->
                    [files |-> sugg.folders[j].files,
                     subfolders |-> sugg.folders[j].subfolders]]]

Shapes(resp) == [i \in DOMAIN resp.suggestions |-> Shape(resp.suggestions[i])]

\* the coverage invariant on every proposal of a response
Covers(resp) ==
    \A i \in DOMAIN resp.suggestions :
        LET all_files == get_all_files(resp.suggestions[i].folders)
        IN  /\ Range(all_files) = Range(filenames)
            /\ \A n \in Range(all_files) : Count(all_files, n) = 1

\* pc = "suggested" with proposals that apply_preferences returned
ReturnedByReRank == Reranked /\ ~ReRankRaises(response, preferences)

====
